---- MODULE Spec2Model ----
(***************************************************************************)
(* Line-driven block parser of madang-parser (src/src/parser/mod.rs and    *)
(* the classifier modules next to it).                                     *)
(*                                                                         *)
(* A string is a sequence of one-character strings; a text of several      *)
(* lines holds "\n" elements.  The parser folds process_line over the      *)
(* lines of the input and then finalizes the context that is still open.   *)
(***************************************************************************)
EXTENDS Integers, Sequences, FiniteSets, TLC

\* ------------------------------------------------------------------------
\* Strings (Rust str) as sequences of characters
\* ------------------------------------------------------------------------

Min(S) == CHOOSE x \in S : \A y \in S : x <= y
Max(S) == CHOOSE x \in S : \A y \in S : x >= y

\* char::is_whitespace, over the characters the model draws.
IsWs(c) == c \in {" ", "\t", "\n"}

\* A byte-range slice that is out of range panics in Rust; the model marks
\* the value so that the step that computed it is seen to have panicked.
Poison == <<"PANIC">>

\* &s[n..]
SliceFrom(s, n) == IF n > Len(s) THEN Poison ELSE SubSeq(s, n + 1, Len(s))

\* str::trim / trim_end / trim_start
trim(s) ==
    LET nz == {i \in 1..Len(s) : ~IsWs(s[i])}
    IN  IF nz = {} THEN <<>> ELSE SubSeq(s, Min(nz), Max(nz))

trim_end(s) ==
    LET nz == {i \in 1..Len(s) : ~IsWs(s[i])}
    IN  IF nz = {} THEN <<>> ELSE SubSeq(s, 1, Max(nz))

\* str::trim_end_matches(c)
trim_end_matches(s, c) ==
    LET nz == {i \in 1..Len(s) : s[i] # c}
    IN  IF nz = {} THEN <<>> ELSE SubSeq(s, 1, Max(nz))

starts_with(s, c) == Len(s) > 0 /\ s[1] = c
ends_with(s, c) == Len(s) > 0 /\ s[Len(s)] = c

\* str::starts_with(&str)
starts_with_str(s, p) == Len(s) >= Len(p) /\ SubSeq(s, 1, Len(p)) = p

\* slice::join(sep)
RECURSIVE join(_, _)
join(ss, sep) ==
    IF ss = <<>> THEN <<>>
    ELSE IF Len(ss) = 1 THEN ss[1]
    ELSE ss[1] \o sep \o join(Tail(ss), sep)

NL == <<"\n">>

\* The backtick (U+0060), which the TLA+ lexer does not take inside a string
\* literal, is written as this character; no other character of the model
\* stands for anything but itself.
BT == "^"

\* str::lines(): split at "\n"; a final empty piece is not a line.
RECURSIVE lines(_)
lines(s) ==
    IF s = <<>> THEN <<>>
    ELSE LET nl == {i \in 1..Len(s) : s[i] = "\n"}
         IN  IF nl = {} THEN <<s>>
             ELSE <<SubSeq(s, 1, Min(nl) - 1)>>
                  \o lines(SubSeq(s, Min(nl) + 1, Len(s)))

\* str::split("\n\n"): leftmost non-overlapping matches, empty pieces kept.
RECURSIVE split_blank(_)
split_blank(s) ==
    LET at == {i \in 1..(Len(s) - 1) : s[i] = "\n" /\ s[i + 1] = "\n"}
    IN  IF at = {} THEN <<s>>
        ELSE <<SubSeq(s, 1, Min(at) - 1)>>
             \o split_blank(SubSeq(s, Min(at) + 2, Len(s)))

\* Iterator::filter over a sequence
RECURSIVE filter_nonempty(_)
filter_nonempty(ss) ==
    IF ss = <<>> THEN <<>>
    ELSE IF ss[1] = <<>> THEN filter_nonempty(Tail(ss))
    ELSE <<ss[1]>> \o filter_nonempty(Tail(ss))

\* ------------------------------------------------------------------------
\* helpers.rs
\* ------------------------------------------------------------------------

count_leading_char(s, c) ==
    LET nz == {i \in 1..Len(s) : s[i] # c}
    IN  IF nz = {} THEN Len(s) ELSE Min(nz) - 1

\* space = 1 column, tab = 4 columns, no tab stops
\* an indentation that rounds each tab up to the next multiple of 4 columns
RECURSIVE TabStopColumns(_, _)
TabStopColumns(s, col) ==
    IF s = <<>> THEN col
    ELSE IF s[1] = " " THEN TabStopColumns(Tail(s), col + 1)
    ELSE IF s[1] = "\t" THEN TabStopColumns(Tail(s), col + 4 - (col % 4))
    ELSE col

CalculateIndentToTabStops(s) == TabStopColumns(s, 0)

calculate_indent(s) ==
    LET nz == {i \in 1..Len(s) : s[i] # " " /\ s[i] # "\t"}
        n  == IF nz = {} THEN Len(s) ELSE Min(nz) - 1
    IN  n + 3 * Cardinality({i \in 1..n : s[i] = "\t"})

remove_indent(s, n) ==
    LET spaces == count_leading_char(s, " ")
        remove == IF spaces < n THEN spaces ELSE n
    IN  SliceFrom(s, remove)

\* a trim_blank_lines that drops empty lines only, not lines of spaces
TrimEmptyLines(ls) ==
    LET nz == {i \in 1..Len(ls) : ls[i] # <<>>}
    IN  IF nz = {} THEN <<>> ELSE join(SubSeq(ls, Min(nz), Max(nz)), NL)

trim_blank_lines(ls) ==
    LET nz == {i \in 1..Len(ls) : trim(ls[i]) # <<>>}
    IN  IF nz = {} THEN <<>> ELSE join(SubSeq(ls, Min(nz), Max(nz)), NL)


\* ------------------------------------------------------------------------
\* node.rs: the document tree
\* ------------------------------------------------------------------------

\* let x = v; F(x): the value is computed once and bound to a name
Let(v, F(_)) == CHOOSE y \in {F(x) : x \in {v}} : TRUE

None == [some |-> FALSE]
Some(v) == [some |-> TRUE, v |-> v]

\* Option::or_else / Option::unwrap_or_else
or_else(a, b) == IF a.some THEN a ELSE b
unwrap_or_else(a, d) == IF a.some THEN a.v ELSE d

Text(s) == [type |-> "Text", text |-> s]
Document(cs) == [type |-> "Document", children |-> cs]
Heading(level, cs) == [type |-> "Heading", level |-> level, children |-> cs]
Paragraph(cs) == [type |-> "Paragraph", children |-> cs]
Blockquote(cs) == [type |-> "Blockquote", children |-> cs]
CodeBlock(info, content) ==
    [type |-> "CodeBlock", info |-> info, content |-> content]
ThematicBreak == [type |-> "ThematicBreak"]
List(list_type, start, tight, cs) ==
    [type |-> "List", list_type |-> list_type, start |-> start,
     tight |-> tight, children |-> cs]
ListItem(cs) == [type |-> "ListItem", children |-> cs]

\* ------------------------------------------------------------------------
\* paragraph.rs, thematic_break.rs, heading.rs, heading_setext.rs
\* ------------------------------------------------------------------------

paragraph_parse(trimmed) == Paragraph(<<Text(trimmed)>>)

\* thematic_break::parse, on the trimmed line and its indentation
\* a thematic break parser that counts any of the three marker characters
ThematicBreakParseAnyMarker(trimmed, indent) ==
    IF indent > 3 THEN None
    ELSE IF trimmed = <<>> THEN None
    ELSE LET markers == {"*", "-", "_"}
             marker_count == Cardinality({i \in 1..Len(trimmed) : trimmed[i] \in markers})
         IN  IF trimmed[1] \notin markers THEN None
             ELSE IF \E i \in 1..Len(trimmed) : trimmed[i] \notin markers \cup {" ", "\t"}
                  THEN None
             ELSE IF marker_count < 3 THEN None
             ELSE Some(ThematicBreak)

thematic_break_parse(trimmed, indent) ==
    IF indent > 3 THEN None
    ELSE IF trimmed = <<>> THEN None
    ELSE LET first == trimmed[1]
             marker_count == Cardinality({i \in 1..Len(trimmed) : trimmed[i] = first})
         IN  IF first # "*" /\ first # "-" /\ first # "_" THEN None
             ELSE IF \E i \in 1..Len(trimmed) :
                        trimmed[i] # first /\ trimmed[i] # " " /\ trimmed[i] # "\t"
                  THEN None
             ELSE IF marker_count < 3 THEN None
             ELSE Some(ThematicBreak)

\* a closing sequence that needs no whitespace before it
StripTrailingHashes(s) == trim_end(trim_end_matches(s, "#"))

strip_closing_hashes(s) ==
    LET without_hashes == trim_end_matches(s, "#")
    IN  IF Len(without_hashes) = Len(s) THEN s
        ELSE IF without_hashes = <<>> THEN <<>>
        ELSE IF ends_with(without_hashes, " ") \/ ends_with(without_hashes, "\t")
             THEN trim_end(without_hashes)
        ELSE s

\* heading::parse, on the trimmed line and its indentation
\* a heading parser that takes any number of `#` as the level
HeadingParseAnyLevel(trimmed, indent) ==
    IF indent > 3 THEN None
    ELSE IF ~starts_with(trimmed, "#") THEN None
    ELSE LET level == count_leading_char(trimmed, "#")
             rest  == SliceFrom(trimmed, level)
         IN  IF rest = <<>> \/ starts_with(rest, " ") \/ starts_with(rest, "\t")
             THEN Some(Heading(level, <<Text(strip_closing_hashes(trim(rest)))>>))
             ELSE None

heading_parse(trimmed, indent) ==
    IF indent > 3 THEN None
    ELSE IF ~starts_with(trimmed, "#") THEN None
    ELSE LET level == count_leading_char(trimmed, "#")
             rest  == SliceFrom(trimmed, level)
         IN  IF level > 6 THEN None
             ELSE IF rest = <<>> \/ starts_with(rest, " ") \/ starts_with(rest, "\t")
                  THEN Some(Heading(level, <<Text(strip_closing_hashes(trim(rest)))>>))
             ELSE None

\* SetextLevel::to_level
to_level(level) == IF level = "Level1" THEN 1 ELSE 2

\* heading_setext::try_start
try_start_heading_setext(line, indent) ==
    LET trimmed == trim_end(line)
    IN  IF indent > 3 THEN [ok |-> FALSE, reason |-> "CodeBlockIndented"]
        ELSE IF trimmed = <<>> THEN [ok |-> FALSE, reason |-> "Empty"]
        ELSE IF trimmed[1] # "=" /\ trimmed[1] # "-"
             THEN [ok |-> FALSE, reason |-> "NotUnderlineChar"]
        ELSE IF \A i \in 1..Len(trimmed) : trimmed[i] = trimmed[1]
             THEN [ok |-> TRUE,
                   level |-> IF trimmed[1] = "=" THEN "Level1" ELSE "Level2"]
        ELSE [ok |-> FALSE, reason |-> "MixedChars"]

\* ------------------------------------------------------------------------
\* fenced_code_block.rs
\* ------------------------------------------------------------------------

try_start_code_block_fenced(line) ==
    LET indent == count_leading_char(line, " ")
        after_indent == SliceFrom(line, indent)
        fence_char == IF starts_with_str(after_indent, <<BT, BT, BT>>) THEN BT
                      ELSE IF starts_with_str(after_indent, <<"~", "~", "~">>) THEN "~"
                      ELSE ""
        fence_len == count_leading_char(after_indent, fence_char)
        info_text == trim(SliceFrom(after_indent, fence_len))
    IN  IF indent > 3 THEN [ok |-> FALSE, reason |-> "CodeBlockIndented"]
        ELSE IF fence_char = "" THEN [ok |-> FALSE, reason |-> "NoFence"]
        ELSE [ok |-> TRUE,
              start |-> [fence_char |-> fence_char, fence_len |-> fence_len,
                         info |-> IF info_text = <<>> THEN None ELSE Some(info_text),
                         indent |-> indent]]

TryEndWrongLength(line, fence_char, min_fence_len) ==
    LET indent == count_leading_char(line, " ")
        after_indent == SliceFrom(line, indent)
        closing_len == count_leading_char(after_indent, fence_char)
    IN  IF indent > 3 THEN [ok |-> FALSE, reason |-> "TooMuchIndent"]
        ELSE IF closing_len = 0 THEN [ok |-> FALSE, reason |-> "FenceCharMismatch"]
        ELSE IF closing_len < 3 THEN [ok |-> FALSE, reason |-> "FenceTooShort"]
        ELSE IF trim(SliceFrom(after_indent, closing_len)) # <<>>
             THEN [ok |-> FALSE, reason |-> "TextAfterFence"]
        ELSE [ok |-> TRUE, reason |-> "ClosingFence"]

try_end_code_block_fenced(line, fence_char, min_fence_len) ==
    LET indent == count_leading_char(line, " ")
        after_indent == SliceFrom(line, indent)
        closing_len == count_leading_char(after_indent, fence_char)
    IN  IF indent > 3 THEN [ok |-> FALSE, reason |-> "TooMuchIndent"]
        ELSE IF closing_len = 0 THEN [ok |-> FALSE, reason |-> "FenceCharMismatch"]
        ELSE IF closing_len < min_fence_len THEN [ok |-> FALSE, reason |-> "FenceTooShort"]
        ELSE IF trim(SliceFrom(after_indent, closing_len)) # <<>>
             THEN [ok |-> FALSE, reason |-> "TextAfterFence"]
        ELSE [ok |-> TRUE, reason |-> "ClosingFence"]

\* Vec::iter().map(remove_indent)
RECURSIVE map_remove_indent(_, _)
map_remove_indent(ls, n) ==
    IF ls = <<>> THEN <<>>
    ELSE <<remove_indent(ls[1], n)>> \o map_remove_indent(Tail(ls), n)

\* code_block_fenced::parse: a whole block of text as one fenced code block
code_block_fenced_parse(text, indent) ==
    Let(lines(text), LAMBDA ls :
        IF ls = <<>> THEN None
        ELSE Let(try_start_code_block_fenced(ls[1]), LAMBDA st :
            IF ~st.ok THEN None
            ELSE LET has_closing_fence ==
                         IF Len(ls) >= 2
                         THEN try_end_code_block_fenced(ls[Len(ls)], st.start.fence_char,
                                                        st.start.fence_len).ok
                         ELSE FALSE
                     content_lines ==
                         IF has_closing_fence THEN SubSeq(ls, 2, Len(ls) - 1)
                         ELSE SubSeq(ls, 2, Len(ls))
                 IN  Some(CodeBlock(st.start.info,
                                    join(map_remove_indent(content_lines, st.start.indent),
                                         NL)))))

\* ------------------------------------------------------------------------
\* code_block_indented.rs
\* ------------------------------------------------------------------------

TryStartIndentedByColumns(line) ==
    IF calculate_indent(line) >= 4
    THEN [ok |-> TRUE, content |-> SliceFrom(line, 4)]
    ELSE IF trim(line) = <<>> THEN [ok |-> FALSE, reason |-> "Empty"]
    ELSE [ok |-> FALSE, reason |-> "InsufficientIndent"]

try_start_code_block_indented(line) ==
    IF count_leading_char(line, " ") >= 4
    THEN [ok |-> TRUE, content |-> SliceFrom(line, 4)]
    ELSE IF trim(line) = <<>> THEN [ok |-> FALSE, reason |-> "Empty"]
    ELSE [ok |-> FALSE, reason |-> "InsufficientIndent"]

\* ------------------------------------------------------------------------
\* list_item.rs
\* ------------------------------------------------------------------------

Bullet(c) == [kind |-> "Bullet", char |-> c]
Ordered(start, delimiter) ==
    [kind |-> "Ordered", start |-> start, delimiter |-> delimiter]

\* ListMarker::to_list_type: (list type, start number)
to_list_type(marker) ==
    IF marker.kind = "Bullet" THEN <<[kind |-> "Bullet"], 1>>
    ELSE <<[kind |-> "Ordered", delimiter |-> marker.delimiter], marker.start>>

\* ListMarker::is_same_type
\* a comparison of markers that takes the start numbers into account
IsSameMarker(m1, m2) == m1 = m2

is_same_type(m1, m2) ==
    IF m1.kind = "Bullet" /\ m2.kind = "Bullet" THEN m1.char = m2.char
    ELSE IF m1.kind = "Ordered" /\ m2.kind = "Ordered"
         THEN m1.delimiter = m2.delimiter
    ELSE FALSE

ListItemStart(marker, indent, content_indent, content) ==
    [marker |-> marker, indent |-> indent, content_indent |-> content_indent,
     content |-> content]

\* ListItemStart::with_content_from
with_content_from(start, line) ==
    [start EXCEPT !.content =
        IF start.content_indent >= Len(line) THEN <<>>
        ELSE SliceFrom(line, start.content_indent)]

\* ItemLine::text / text_only / blank
ItemLine_text(content) == [content |-> content, text_only |-> FALSE]
ItemLine_text_only(content) == [content |-> content, text_only |-> TRUE]
ItemLine_blank == [content |-> <<>>, text_only |-> FALSE]

Digits == <<"0", "1", "2", "3", "4", "5", "6", "7", "8", "9">>
is_ascii_digit(c) == \E d \in 1..10 : Digits[d] = c
digit_value(c) == (CHOOSE d \in 1..10 : Digits[d] = c) - 1

\* str::parse::<usize>() of a run of ASCII digits
RECURSIVE parse_usize(_)
parse_usize(ds) ==
    IF ds = <<>> THEN 0
    ELSE 10 * parse_usize(SubSeq(ds, 1, Len(ds) - 1)) + digit_value(ds[Len(ds)])

\* The longest marker number: 9 digits.
MaxOrderedDigits == 9

\* The part of the whitespace after a marker that counts into content_indent.
MaxMarkerSpaces == 4

min(a, b) == IF a < b THEN a ELSE b

try_bullet_marker(s, indent) ==
    IF s = <<>> THEN None
    ELSE IF s[1] \notin {"-", "+", "*"} THEN None
    ELSE LET rest == SliceFrom(s, 1)
             spaces_after_marker == count_leading_char(rest, " ")
         IN  IF rest = <<>>
             THEN Some(ListItemStart(Bullet(s[1]), indent, indent + 1, <<>>))
             ELSE IF rest[1] # " " /\ rest[1] # "\t" THEN None
             ELSE Some(ListItemStart(Bullet(s[1]), indent,
                       indent + 1 + min(spaces_after_marker, MaxMarkerSpaces), <<>>))

\* an ordered marker parser that takes a number of any length
TryOrderedMarkerAnyLength(s, indent) ==
    LET nd == {i \in 1..Len(s) : ~is_ascii_digit(s[i])}
        num_len == IF nd = {} THEN Len(s) ELSE Min(nd) - 1
        rest == SliceFrom(s, num_len)
        after_delimiter == SliceFrom(rest, 1)
    IN  IF num_len = 0 THEN None
        ELSE IF rest = <<>> THEN None
        ELSE IF rest[1] # "." /\ rest[1] # ")" THEN None
        ELSE IF after_delimiter = <<>>
             THEN Some(ListItemStart(Ordered(parse_usize(SubSeq(s, 1, num_len)), rest[1]),
                                     indent, indent + num_len + 1, <<>>))
        ELSE IF after_delimiter[1] # " " /\ after_delimiter[1] # "\t" THEN None
        ELSE Some(ListItemStart(Ordered(parse_usize(SubSeq(s, 1, num_len)), rest[1]),
                  indent,
                  indent + num_len + 1
                      + min(count_leading_char(after_delimiter, " "), MaxMarkerSpaces),
                  <<>>))

try_ordered_marker(s, indent) ==
    LET nd == {i \in 1..Len(s) : ~is_ascii_digit(s[i])}
        num_len == IF nd = {} THEN Len(s) ELSE Min(nd) - 1
        num_str == SubSeq(s, 1, num_len)
        start_num == parse_usize(num_str)
        rest == SliceFrom(s, num_len)
        after_delimiter == SliceFrom(rest, 1)
        marker_len == num_len + 1
        spaces_after_delimiter == count_leading_char(after_delimiter, " ")
    IN  IF num_str = <<>> \/ num_len > MaxOrderedDigits THEN None
        ELSE IF rest = <<>> THEN None
        ELSE IF rest[1] # "." /\ rest[1] # ")" THEN None
        ELSE IF after_delimiter = <<>>
             THEN Some(ListItemStart(Ordered(start_num, rest[1]), indent,
                                     indent + marker_len, <<>>))
        ELSE IF after_delimiter[1] # " " /\ after_delimiter[1] # "\t" THEN None
        ELSE Some(ListItemStart(Ordered(start_num, rest[1]), indent,
                  indent + marker_len + min(spaces_after_delimiter, MaxMarkerSpaces),
                  <<>>))

\* list_item::try_start
list_item_try_start(line) ==
    LET indent == count_leading_char(line, " ")
        after_indent == SliceFrom(line, indent)
    IN  IF indent > 3 THEN [ok |-> FALSE, reason |-> "CodeBlockIndented"]
        ELSE Let(or_else(try_bullet_marker(after_indent, indent),
                         try_ordered_marker(after_indent, indent)),
                 LAMBDA found :
                     IF found.some
                     THEN [ok |-> TRUE, start |-> with_content_from(found.v, line)]
                     ELSE [ok |-> FALSE, reason |-> "NotListMarker"])

Reprocess == [kind |-> "Reprocess"]
Blank == [kind |-> "Blank"]
NewItem(start) == [kind |-> "NewItem", start |-> start]
ContinuationLine(item_line) == [kind |-> "ContinuationLine", item_line |-> item_line]

\* list_item::try_end
TryEndNewItemBelowFirstIndent(line, marker, first_content_indent, current_content_indent) ==
    LET indent == count_leading_char(line, " ")
        content == SliceFrom(line, min(indent, current_content_indent))
    IN  IF trim(line) = <<>> THEN Blank
        ELSE Let(list_item_try_start(line), LAMBDA st :
            IF indent < first_content_indent /\ st.ok
            THEN IF is_same_type(marker, st.start.marker) THEN NewItem(st.start)
                 ELSE Reprocess
            ELSE IF indent >= first_content_indent
                 THEN ContinuationLine(ItemLine_text(content))
            ELSE Reprocess)

\* a try_end with lazy continuation: a line that is no item start
\* continues the item whatever its indentation
TryEndLazyContinuation(line, marker, first_content_indent, current_content_indent) ==
    LET indent == count_leading_char(line, " ")
        content == SliceFrom(line, min(indent, current_content_indent))
    IN  IF trim(line) = <<>> THEN Blank
        ELSE Let(list_item_try_start(line), LAMBDA st :
            IF indent < current_content_indent /\ st.ok
            THEN IF is_same_type(marker, st.start.marker) THEN NewItem(st.start)
                 ELSE Reprocess
            ELSE IF indent < current_content_indent /\ st.reason = "CodeBlockIndented"
                    /\ indent >= first_content_indent
                 THEN ContinuationLine(ItemLine_text_only(content))
            ELSE ContinuationLine(ItemLine_text(content)))

list_item_try_end(line, marker, first_content_indent, current_content_indent) ==
    LET indent == count_leading_char(line, " ")
        strip_amount == min(indent, current_content_indent)
        content == SliceFrom(line, strip_amount)
    IN  IF trim(line) = <<>> THEN Blank
        ELSE Let(list_item_try_start(line), LAMBDA st :
            IF indent < current_content_indent /\ st.ok
            THEN IF is_same_type(marker, st.start.marker) THEN NewItem(st.start)
                 ELSE Reprocess
            ELSE IF indent < current_content_indent /\ st.reason = "CodeBlockIndented"
                    /\ indent >= first_content_indent
                 THEN ContinuationLine(ItemLine_text_only(content))
            ELSE IF indent >= first_content_indent
                 THEN ContinuationLine(ItemLine_text(content))
            ELSE Reprocess)

\* ------------------------------------------------------------------------
\* blockquote.rs
\* ------------------------------------------------------------------------

\* blockquote::parse on one line: the text after the marker, or the reason
ParseBlockWithoutNesting(block) ==
    LET indent == calculate_indent(block)
        trimmed == trim(block)
    IN  unwrap_or_else(
            or_else(or_else(code_block_fenced_parse(block, indent),
                            thematic_break_parse(trimmed, indent)),
                    heading_parse(trimmed, indent)),
            paragraph_parse(trimmed))

\* a marker parser that blanks the `>` out where it should remove it
BlockquoteParseBlanksMarker(line) ==
    LET indent == calculate_indent(line)
        trimmed == trim(line)
    IN  IF indent > 3 THEN [ok |-> FALSE, reason |-> "CodeBlockIndented"]
        ELSE IF ~starts_with(trimmed, ">")
             THEN [ok |-> FALSE, reason |-> "NotBlockquoteMarker"]
        ELSE [ok |-> TRUE, content |-> <<" ">> \o SliceFrom(trimmed, 1)]

blockquote_parse(line) ==
    LET indent == calculate_indent(line)
        trimmed == trim(line)
        rest == SliceFrom(trimmed, 1)
    IN  IF indent > 3 THEN [ok |-> FALSE, reason |-> "CodeBlockIndented"]
        ELSE IF ~starts_with(trimmed, ">")
             THEN [ok |-> FALSE, reason |-> "NotBlockquoteMarker"]
        ELSE [ok |-> TRUE,
              content |-> IF starts_with(rest, " ") \/ starts_with(rest, "\t")
                          THEN SliceFrom(rest, 1) ELSE rest]

\* The marker-stripped lines of a blockquote text, or None when the first
\* line carries no marker (the loop of blockquote::parse_text).
RECURSIVE blockquote_contents(_, _)
blockquote_contents(ls, contents) ==
    IF ls = <<>> THEN Some(contents)
    ELSE Let(blockquote_parse(ls[1]), LAMBDA r :
             IF r.ok THEN blockquote_contents(Tail(ls), Append(contents, r.content))
             ELSE IF contents = <<>> THEN None
             ELSE blockquote_contents(Tail(ls), Append(contents, trim(ls[1]))))

RECURSIVE parse_block_simple(_)

\* Iterator::map(parse_block)
RECURSIVE map_parse_block(_)
map_parse_block(blocks) ==
    IF blocks = <<>> THEN <<>>
    ELSE <<parse_block_simple(blocks[1])>> \o map_parse_block(Tail(blocks))

\* blockquote::finalize
blockquote_finalize(contents) ==
    Blockquote(map_parse_block(filter_nonempty(split_blank(join(contents, NL)))))

\* blockquote::parse_text: a whole text as one blockquote
blockquote_parse_text(text) ==
    Let(blockquote_contents(lines(text), <<>>), LAMBDA contents :
        IF ~contents.some THEN None
        ELSE IF contents.v = <<>> THEN None
        ELSE Some(blockquote_finalize(contents.v)))

\* mod.rs parse_block_simple: one block of a blockquote's inner text
parse_block_simple(block) ==
    LET indent == calculate_indent(block)
        trimmed == trim(block)
    IN  unwrap_or_else(
            or_else(or_else(or_else(code_block_fenced_parse(block, indent),
                                    blockquote_parse_text(trimmed)),
                            thematic_break_parse(trimmed, indent)),
                    heading_parse(trimmed, indent)),
            paragraph_parse(trimmed))

\* ------------------------------------------------------------------------
\* context: ParsingContext
\* ------------------------------------------------------------------------

CtxNone == [tag |-> "None"]
CtxCodeBlockFenced(start, content) ==
    [tag |-> "CodeBlockFenced", start |-> start, content |-> content]
CtxParagraph(ls) == [tag |-> "Paragraph", lines |-> ls]
CtxBlockquote(ls) == [tag |-> "Blockquote", lines |-> ls]
CtxList(first_item_start, items, current_item_lines, current_content_indent, tight, pending_blank_count) ==
    [tag |-> "List", first_item_start |-> first_item_start, items |-> items,
     current_item_lines |-> current_item_lines,
     current_content_indent |-> current_content_indent, tight |-> tight,
     pending_blank_count |-> pending_blank_count]
CtxCodeBlockIndented(ls, pending_blank_count) ==
    [tag |-> "CodeBlockIndented", lines |-> ls,
     pending_blank_count |-> pending_blank_count]

\* ------------------------------------------------------------------------
\* mod.rs: the per-state transition functions.  Each returns the pair
\* <<finished nodes, next context>> (ParserState).
\* ------------------------------------------------------------------------

\* a push that puts the finished node in front of the earlier ones
PushNodeInFront(vec, node) == <<node>> \o vec

push_node(vec, node) == Append(vec, node)
push_string(vec, str) == Append(vec, str)
push_item(items, item) == Append(items, item)

\* ItemLine contents of one item
RECURSIVE item_contents(_)
item_contents(ls) ==
    IF ls = <<>> THEN <<>> ELSE <<ls[1].content>> \o item_contents(Tail(ls))

\* the n empty lines a continuation line puts before itself
RECURSIVE blank_item_lines(_)
blank_item_lines(n) ==
    IF n = 0 THEN <<>> ELSE <<ItemLine_blank>> \o blank_item_lines(n - 1)

RECURSIVE empty_strings(_)
empty_strings(n) == IF n = 0 THEN <<>> ELSE <<(<<>>)>> \o empty_strings(n - 1)

ListStartContext(start) ==
    CtxList(start, <<>>, <<ItemLine_text(start.content)>>, start.content_indent,
            TRUE, 0)

NoneListBeforeBreak(line, children) ==
    LET fence == try_start_code_block_fenced(line)
        indent == calculate_indent(line)
        trimmed == trim(line)
        break == thematic_break_parse(trimmed, indent)
        heading == heading_parse(trimmed, indent)
        item == list_item_try_start(line)
        code == try_start_code_block_indented(line)
    IN  IF trimmed = <<>> THEN <<children, CtxNone>>
        ELSE IF fence.ok THEN <<children, CtxCodeBlockFenced(fence.start, <<>>)>>
        ELSE IF item.ok THEN <<children, ListStartContext(item.start)>>
        ELSE IF break.some THEN <<push_node(children, break.v), CtxNone>>
        ELSE IF heading.some THEN <<push_node(children, heading.v), CtxNone>>
        ELSE IF starts_with(trimmed, ">") /\ indent <= 3
             THEN <<children, CtxBlockquote(<<trimmed>>)>>
        ELSE IF code.ok THEN <<children, CtxCodeBlockIndented(<<code.content>>, 0)>>
        ELSE <<children, CtxParagraph(<<trimmed>>)>>

\* an Idle transition that opens a Blockquote state with an empty buffer
NoneOpensEmptyQuote(line, children) ==
    LET fence == try_start_code_block_fenced(line)
        indent == calculate_indent(line)
        trimmed == trim(line)
        break == thematic_break_parse(trimmed, indent)
        heading == heading_parse(trimmed, indent)
        code == try_start_code_block_indented(line)
    IN  IF trimmed = <<>> THEN <<children, CtxNone>>
        ELSE IF fence.ok THEN <<children, CtxCodeBlockFenced(fence.start, <<>>)>>
        ELSE IF break.some THEN <<push_node(children, break.v), CtxNone>>
        ELSE IF heading.some THEN <<push_node(children, heading.v), CtxNone>>
        ELSE IF starts_with(trimmed, ">") /\ indent <= 3
             THEN <<children, CtxBlockquote(<<>>)>>
        ELSE Let(list_item_try_start(line), LAMBDA item :
            IF item.ok THEN <<children, ListStartContext(item.start)>>
            ELSE IF code.ok
                 THEN <<children, CtxCodeBlockIndented(<<code.content>>, 0)>>
            ELSE <<children, CtxParagraph(<<trimmed>>)>>)

process_line_in_none(line, children) ==
    LET fence == try_start_code_block_fenced(line)
        indent == calculate_indent(line)
        trimmed == trim(line)
        break == thematic_break_parse(trimmed, indent)
        heading == heading_parse(trimmed, indent)
        code == try_start_code_block_indented(line)
    IN  IF trimmed = <<>> THEN <<children, CtxNone>>
        ELSE IF fence.ok THEN <<children, CtxCodeBlockFenced(fence.start, <<>>)>>
        ELSE IF break.some THEN <<push_node(children, break.v), CtxNone>>
        ELSE IF heading.some THEN <<push_node(children, heading.v), CtxNone>>
        ELSE IF starts_with(trimmed, ">") /\ indent <= 3
             THEN <<children, CtxBlockquote(<<trimmed>>)>>
        ELSE Let(list_item_try_start(line), LAMBDA item :
            IF item.ok THEN <<children, ListStartContext(item.start)>>
            ELSE IF code.ok
                 THEN <<children, CtxCodeBlockIndented(<<code.content>>, 0)>>
            ELSE <<children, CtxParagraph(<<trimmed>>)>>)

\* a fenced transition that lets a blank line or a block start end the
\* code block, as in Paragraph state
FenceConsultsClassifiers(line, start, content, children) ==
    IF try_end_code_block_fenced(line, start.fence_char, start.fence_len).ok
    THEN <<push_node(children, CodeBlock(start.info, join(content, NL))), CtxNone>>
    ELSE IF trim(line) = <<>>
            \/ heading_parse(trim(line), calculate_indent(line)).some
            \/ thematic_break_parse(trim(line), calculate_indent(line)).some
         THEN process_line_in_none(line,
                  push_node(children, CodeBlock(start.info, join(content, NL))))
    ELSE <<children,
           CtxCodeBlockFenced(start,
                              push_string(content, remove_indent(line, start.indent)))>>

process_line_in_code_block(line, start, content, children) ==
    IF try_end_code_block_fenced(line, start.fence_char, start.fence_len).ok
    THEN <<push_node(children, CodeBlock(start.info, join(content, NL))), CtxNone>>
    ELSE <<children,
           CtxCodeBlockFenced(start,
                              push_string(content, remove_indent(line, start.indent)))>>

ParagraphBreakBeforeSetext(line, ls, children) ==
    LET fence == try_start_code_block_fenced(line)
        trimmed == trim(line)
        indent == calculate_indent(line)
        setext == try_start_heading_setext(trimmed, indent)
        break == thematic_break_parse(trimmed, indent)
        heading == heading_parse(trimmed, indent)
        item == list_item_try_start(line)
        closed == push_node(children, paragraph_parse(join(ls, NL)))
    IN  IF trimmed = <<>> THEN <<closed, CtxNone>>
        ELSE IF fence.ok THEN <<closed, CtxCodeBlockFenced(fence.start, <<>>)>>
        ELSE IF break.some THEN <<push_node(closed, break.v), CtxNone>>
        ELSE IF setext.ok
             THEN <<push_node(children,
                              Heading(to_level(setext.level), <<Text(join(ls, NL))>>)),
                    CtxNone>>
        ELSE IF heading.some THEN <<push_node(closed, heading.v), CtxNone>>
        ELSE IF starts_with(trimmed, ">") /\ indent <= 3
             THEN <<closed, CtxBlockquote(<<trimmed>>)>>
        ELSE IF item.ok /\ item.start.content # <<>>
             THEN <<closed, ListStartContext(item.start)>>
        ELSE <<children, CtxParagraph(push_string(ls, trimmed))>>

ParagraphIndentedCode(line, ls, children) ==
    LET fence == try_start_code_block_fenced(line)
        trimmed == trim(line)
        indent == calculate_indent(line)
        setext == try_start_heading_setext(trimmed, indent)
        break == thematic_break_parse(trimmed, indent)
        heading == heading_parse(trimmed, indent)
        item == list_item_try_start(line)
        code == try_start_code_block_indented(line)
        closed == push_node(children, paragraph_parse(join(ls, NL)))
    IN  IF trimmed = <<>> THEN <<closed, CtxNone>>
        ELSE IF fence.ok THEN <<closed, CtxCodeBlockFenced(fence.start, <<>>)>>
        ELSE IF setext.ok
             THEN <<push_node(children,
                              Heading(to_level(setext.level), <<Text(join(ls, NL))>>)),
                    CtxNone>>
        ELSE IF break.some THEN <<push_node(closed, break.v), CtxNone>>
        ELSE IF heading.some THEN <<push_node(closed, heading.v), CtxNone>>
        ELSE IF starts_with(trimmed, ">") /\ indent <= 3
             THEN <<closed, CtxBlockquote(<<trimmed>>)>>
        ELSE IF item.ok /\ item.start.content # <<>>
             THEN <<closed, ListStartContext(item.start)>>
        ELSE IF code.ok THEN <<closed, CtxCodeBlockIndented(<<code.content>>, 0)>>
        ELSE <<children, CtxParagraph(push_string(ls, trimmed))>>

\* a Paragraph transition that emits a thematic break or a heading ahead of
\* the paragraph it interrupts
InterruptingBlockFirst(line, ls, children) ==
    LET fence == try_start_code_block_fenced(line)
        trimmed == trim(line)
        indent == calculate_indent(line)
        setext == try_start_heading_setext(trimmed, indent)
        break == thematic_break_parse(trimmed, indent)
        heading == heading_parse(trimmed, indent)
        paragraph == paragraph_parse(join(ls, NL))
        closed == push_node(children, paragraph)
    IN  IF trimmed = <<>> THEN <<closed, CtxNone>>
        ELSE IF fence.ok THEN <<closed, CtxCodeBlockFenced(fence.start, <<>>)>>
        ELSE IF setext.ok
             THEN <<push_node(children,
                              Heading(to_level(setext.level), <<Text(join(ls, NL))>>)),
                    CtxNone>>
        ELSE IF break.some
             THEN <<push_node(push_node(children, break.v), paragraph), CtxNone>>
        ELSE IF heading.some
             THEN <<push_node(push_node(children, heading.v), paragraph), CtxNone>>
        ELSE IF starts_with(trimmed, ">") /\ indent <= 3
             THEN <<closed, CtxBlockquote(<<trimmed>>)>>
        ELSE Let(list_item_try_start(line), LAMBDA item :
            IF item.ok /\ item.start.content # <<>>
            THEN <<closed, ListStartContext(item.start)>>
            ELSE <<children, CtxParagraph(push_string(ls, trimmed))>>)

process_line_in_paragraph(line, ls, children) ==
    LET fence == try_start_code_block_fenced(line)
        trimmed == trim(line)
        indent == calculate_indent(line)
        setext == try_start_heading_setext(trimmed, indent)
        break == thematic_break_parse(trimmed, indent)
        heading == heading_parse(trimmed, indent)
        closed == push_node(children, paragraph_parse(join(ls, NL)))
    IN  IF trimmed = <<>> THEN <<closed, CtxNone>>
        ELSE IF fence.ok THEN <<closed, CtxCodeBlockFenced(fence.start, <<>>)>>
        ELSE IF setext.ok
             THEN <<push_node(children,
                              Heading(to_level(setext.level), <<Text(join(ls, NL))>>)),
                    CtxNone>>
        ELSE IF break.some THEN <<push_node(closed, break.v), CtxNone>>
        ELSE IF heading.some THEN <<push_node(closed, heading.v), CtxNone>>
        ELSE IF starts_with(trimmed, ">") /\ indent <= 3
             THEN <<closed, CtxBlockquote(<<trimmed>>)>>
        ELSE Let(list_item_try_start(line), LAMBDA item :
            IF item.ok /\ item.start.content # <<>>
            THEN <<closed, ListStartContext(item.start)>>
            ELSE <<children, CtxParagraph(push_string(ls, trimmed))>>)

RECURSIVE parse(_)

\* Document { children } => children
document_children(doc) == doc.children

ParseFlaggedItemAsBlocks(ls) ==
    document_children(parse(join(item_contents(ls), NL)))

ParseItemLinesSkippingBlanks(ls) ==
    document_children(parse(join(filter_nonempty(item_contents(ls)), NL)))

\* The chunks of parse_item_lines_with_text_only: runs of lines between
\* blank unflagged lines, each with its has_text_only flag.
RECURSIVE item_chunks(_, _, _)
item_chunks(ls, current_chunk, current_has_text_only) ==
    IF ls = <<>>
    THEN IF current_chunk # <<>> THEN <<<<current_chunk, current_has_text_only>>>>
         ELSE <<>>
    ELSE IF trim(ls[1].content) = <<>> /\ ~ls[1].text_only
         THEN IF current_chunk # <<>>
              THEN <<<<current_chunk, current_has_text_only>>>>
                   \o item_chunks(Tail(ls), <<>>, FALSE)
              ELSE item_chunks(Tail(ls), current_chunk, current_has_text_only)
         ELSE item_chunks(Tail(ls), Append(current_chunk, ls[1]),
                          current_has_text_only \/ ls[1].text_only)

RECURSIVE parse_chunks(_)
parse_chunks(chunks) ==
    IF chunks = <<>> THEN <<>>
    ELSE LET content == join(item_contents(chunks[1][1]), NL)
         IN  (IF chunks[1][2] THEN <<Paragraph(<<Text(content)>>)>>
              ELSE document_children(parse(content)))
             \o parse_chunks(Tail(chunks))

parse_item_lines_with_text_only(ls) == parse_chunks(item_chunks(ls, <<>>, FALSE))

parse_item_lines(ls) ==
    IF \E i \in 1..Len(ls) : ls[i].text_only
    THEN parse_item_lines_with_text_only(ls)
    ELSE document_children(parse(join(item_contents(ls), NL)))

RECURSIVE map_list_items(_)
map_list_items(all_items) ==
    IF all_items = <<>> THEN <<>>
    ELSE <<ListItem(parse_item_lines(all_items[1]))>> \o map_list_items(Tail(all_items))

\* a finalize_list that leaves out the item still open
FinalizeListWithoutCurrentItem(first_item_start, items, current_item_lines, tight, children) ==
    LET lt == to_list_type(first_item_start.marker)
    IN  push_node(children, List(lt[1], lt[2], tight, map_list_items(items)))

finalize_list(first_item_start, items, current_item_lines, tight, children) ==
    LET lt == to_list_type(first_item_start.marker)
        all_items == push_item(items, current_item_lines)
    IN  push_node(children, List(lt[1], lt[2], tight, map_list_items(all_items)))

ListNewItemKeepsTight(line, c, children) ==
    LET r == list_item_try_end(line, c.first_item_start.marker,
                               c.first_item_start.content_indent,
                               c.current_content_indent)
    IN  IF r.kind = "Reprocess"
        THEN process_line_in_none(line,
                 finalize_list(c.first_item_start, c.items, c.current_item_lines,
                               c.tight, children))
        ELSE IF r.kind = "Blank"
        THEN <<children, [c EXCEPT !.pending_blank_count = @ + 1]>>
        ELSE IF r.kind = "NewItem"
        THEN <<children,
               CtxList(c.first_item_start, push_item(c.items, c.current_item_lines),
                       <<ItemLine_text(r.start.content)>>, r.start.content_indent,
                       c.tight, 0)>>
        ELSE <<children,
               CtxList(c.first_item_start, c.items,
                       c.current_item_lines \o blank_item_lines(c.pending_blank_count)
                           \o <<r.item_line>>,
                       c.current_content_indent,
                       c.tight /\ c.pending_blank_count = 0, 0)>>

ListIgnoresMarkerType(line, c, children) ==
    LET r == list_item_try_end(line, c.first_item_start.marker,
                               c.first_item_start.content_indent,
                               c.current_content_indent)
        st == list_item_try_start(line)
    IN  IF r.kind = "Reprocess" /\ st.ok
        THEN <<children,
               CtxList(c.first_item_start, push_item(c.items, c.current_item_lines),
                       <<ItemLine_text(st.start.content)>>, st.start.content_indent,
                       c.tight /\ c.pending_blank_count = 0, 0)>>
        ELSE IF r.kind = "Reprocess"
        THEN process_line_in_none(line,
                 finalize_list(c.first_item_start, c.items, c.current_item_lines,
                               c.tight, children))
        ELSE IF r.kind = "Blank"
        THEN <<children, [c EXCEPT !.pending_blank_count = @ + 1]>>
        ELSE IF r.kind = "NewItem"
        THEN <<children,
               CtxList(c.first_item_start, push_item(c.items, c.current_item_lines),
                       <<ItemLine_text(r.start.content)>>, r.start.content_indent,
                       c.tight /\ c.pending_blank_count = 0, 0)>>
        ELSE <<children,
               CtxList(c.first_item_start, c.items,
                       c.current_item_lines \o blank_item_lines(c.pending_blank_count)
                           \o <<r.item_line>>,
                       c.current_content_indent,
                       c.tight /\ c.pending_blank_count = 0, 0)>>

\* c is the List context
\* a List step that appends the finished List after the replay of the line
ListClosedAfterReplay(line, c, children) ==
    Let(list_item_try_end(line, c.first_item_start.marker,
                          c.first_item_start.content_indent, c.current_content_indent),
        LAMBDA r :
            IF r.kind = "Reprocess"
            THEN Let(process_line_in_none(line, children), LAMBDA st :
                     <<finalize_list(c.first_item_start, c.items, c.current_item_lines,
                                     c.tight, st[1]),
                       st[2]>>)
            ELSE IF r.kind = "Blank"
            THEN <<children, [c EXCEPT !.pending_blank_count = @ + 1]>>
            ELSE IF r.kind = "NewItem"
            THEN <<children,
                   CtxList(c.first_item_start, push_item(c.items, c.current_item_lines),
                           <<ItemLine_text(r.start.content)>>, r.start.content_indent,
                           c.tight /\ c.pending_blank_count = 0, 0)>>
            ELSE <<children,
                   CtxList(c.first_item_start, c.items,
                           c.current_item_lines
                               \o blank_item_lines(c.pending_blank_count)
                               \o <<r.item_line>>,
                           c.current_content_indent,
                           c.tight /\ c.pending_blank_count = 0, 0)>>)

\* a List transition whose blank line already makes the list loose
BlankLineLoosens(line, c, children) ==
    Let(list_item_try_end(line, c.first_item_start.marker,
                          c.first_item_start.content_indent, c.current_content_indent),
        LAMBDA r :
            IF r.kind = "Reprocess"
            THEN process_line_in_none(line,
                     finalize_list(c.first_item_start, c.items, c.current_item_lines,
                                   c.tight, children))
            ELSE IF r.kind = "Blank"
            THEN <<children, [c EXCEPT !.pending_blank_count = @ + 1, !.tight = FALSE]>>
            ELSE IF r.kind = "NewItem"
            THEN <<children,
                   CtxList(c.first_item_start, push_item(c.items, c.current_item_lines),
                           <<ItemLine_text(r.start.content)>>, r.start.content_indent,
                           c.tight /\ c.pending_blank_count = 0, 0)>>
            ELSE <<children,
                   CtxList(c.first_item_start, c.items,
                           c.current_item_lines
                               \o blank_item_lines(c.pending_blank_count)
                               \o <<r.item_line>>,
                           c.current_content_indent,
                           c.tight /\ c.pending_blank_count = 0, 0)>>)

\* a List transition whose tight flag tells only whether blank lines came
\* before the last item or continuation line
TightFromLastGap(line, c, children) ==
    Let(list_item_try_end(line, c.first_item_start.marker,
                          c.first_item_start.content_indent, c.current_content_indent),
        LAMBDA r :
            IF r.kind = "Reprocess"
            THEN process_line_in_none(line,
                     finalize_list(c.first_item_start, c.items, c.current_item_lines,
                                   c.tight, children))
            ELSE IF r.kind = "Blank"
            THEN <<children, [c EXCEPT !.pending_blank_count = @ + 1]>>
            ELSE IF r.kind = "NewItem"
            THEN <<children,
                   CtxList(c.first_item_start, push_item(c.items, c.current_item_lines),
                           <<ItemLine_text(r.start.content)>>, r.start.content_indent,
                           c.pending_blank_count = 0, 0)>>
            ELSE <<children,
                   CtxList(c.first_item_start, c.items,
                           c.current_item_lines
                               \o blank_item_lines(c.pending_blank_count)
                               \o <<r.item_line>>,
                           c.current_content_indent,
                           c.pending_blank_count = 0, 0)>>)

\* a List transition that takes each new item's start as the list's own
FirstStartFollowsItems(line, c, children) ==
    Let(list_item_try_end(line, c.first_item_start.marker,
                          c.first_item_start.content_indent, c.current_content_indent),
        LAMBDA r :
            IF r.kind = "Reprocess"
            THEN process_line_in_none(line,
                     finalize_list(c.first_item_start, c.items, c.current_item_lines,
                                   c.tight, children))
            ELSE IF r.kind = "Blank"
            THEN <<children, [c EXCEPT !.pending_blank_count = @ + 1]>>
            ELSE IF r.kind = "NewItem"
            THEN <<children,
                   CtxList(r.start, push_item(c.items, c.current_item_lines),
                           <<ItemLine_text(r.start.content)>>, r.start.content_indent,
                           c.tight /\ c.pending_blank_count = 0, 0)>>
            ELSE <<children,
                   CtxList(c.first_item_start, c.items,
                           c.current_item_lines
                               \o blank_item_lines(c.pending_blank_count)
                               \o <<r.item_line>>,
                           c.current_content_indent,
                           c.tight /\ c.pending_blank_count = 0, 0)>>)

process_line_in_list(line, c, children) ==
    Let(list_item_try_end(line, c.first_item_start.marker,
                          c.first_item_start.content_indent, c.current_content_indent),
        LAMBDA r :
            IF r.kind = "Reprocess"
            THEN process_line_in_none(line,
                     finalize_list(c.first_item_start, c.items, c.current_item_lines,
                                   c.tight, children))
            ELSE IF r.kind = "Blank"
            THEN <<children, [c EXCEPT !.pending_blank_count = @ + 1]>>
            ELSE IF r.kind = "NewItem"
            THEN <<children,
                   CtxList(c.first_item_start, push_item(c.items, c.current_item_lines),
                           <<ItemLine_text(r.start.content)>>, r.start.content_indent,
                           c.tight /\ c.pending_blank_count = 0, 0)>>
            ELSE <<children,
                   CtxList(c.first_item_start, c.items,
                           c.current_item_lines
                               \o blank_item_lines(c.pending_blank_count)
                               \o <<r.item_line>>,
                           c.current_content_indent,
                           c.tight /\ c.pending_blank_count = 0, 0)>>)

process_line_in_code_block_indented(line, ls, pending_blank_count, children) ==
    LET r == try_start_code_block_indented(line)
    IN  IF r.ok
        THEN <<children,
               CtxCodeBlockIndented(
                   push_string(ls \o empty_strings(pending_blank_count), r.content), 0)>>
        ELSE IF r.reason = "Empty"
        THEN <<children, CtxCodeBlockIndented(ls, pending_blank_count + 1)>>
        ELSE process_line_in_none(line,
                 push_node(children, CodeBlock(None, trim_blank_lines(ls))))

\* blockquote::parse(&text, 0, parse_block_simple) pushed when it is Some
push_blockquote(ls, children) ==
    Let(blockquote_parse_text(join(ls, NL)), LAMBDA node :
        IF node.some THEN push_node(children, node.v) ELSE children)

BlockquoteClosedByBlankOnly(line, ls, children) ==
    LET trimmed == trim(line)
    IN  IF trimmed = <<>> THEN <<push_blockquote(ls, children), CtxNone>>
        ELSE <<children, CtxBlockquote(push_string(ls, trimmed))>>

BlockquoteWithoutLazy(line, ls, children) ==
    LET trimmed == trim(line)
    IN  IF trimmed = <<>> THEN <<push_blockquote(ls, children), CtxNone>>
        ELSE IF starts_with(trimmed, ">")
        THEN <<children, CtxBlockquote(push_string(ls, trimmed))>>
        ELSE process_line_in_none(line, push_blockquote(ls, children))

process_line_in_blockquote(line, ls, children) ==
    LET trimmed == trim(line)
        indent == calculate_indent(line)
        fence == try_start_code_block_fenced(line)
        break == thematic_break_parse(trimmed, indent)
        heading == heading_parse(trimmed, indent)
    IN  Let(push_blockquote(ls, children), LAMBDA closed :
            IF trimmed = <<>> THEN <<closed, CtxNone>>
            ELSE IF fence.ok THEN <<closed, CtxCodeBlockFenced(fence.start, <<>>)>>
            ELSE IF break.some THEN <<push_node(closed, break.v), CtxNone>>
            ELSE IF heading.some THEN <<push_node(closed, heading.v), CtxNone>>
            ELSE <<children, CtxBlockquote(push_string(ls, trimmed))>>)

FinalizeDropsOpenFence(c, children) ==
    IF c.tag \in {"None", "CodeBlockFenced"} THEN children
    ELSE IF c.tag = "Paragraph"
         THEN push_node(children, paragraph_parse(join(c.lines, NL)))
    ELSE IF c.tag = "Blockquote" THEN push_blockquote(c.lines, children)
    ELSE IF c.tag = "List"
         THEN finalize_list(c.first_item_start, c.items, c.current_item_lines,
                            c.tight, children)
    ELSE push_node(children, CodeBlock(None, trim_blank_lines(c.lines)))

finalize_context(c, children) ==
    IF c.tag = "None" THEN children
    ELSE IF c.tag = "CodeBlockFenced"
         THEN push_node(children, CodeBlock(c.start.info, join(c.content, NL)))
    ELSE IF c.tag = "Paragraph"
         THEN push_node(children, paragraph_parse(join(c.lines, NL)))
    ELSE IF c.tag = "Blockquote" THEN push_blockquote(c.lines, children)
    ELSE IF c.tag = "List"
         THEN finalize_list(c.first_item_start, c.items, c.current_item_lines,
                            c.tight, children)
    ELSE push_node(children, CodeBlock(None, trim_blank_lines(c.lines)))

process_line(line, c, children) ==
    IF c.tag = "None" THEN process_line_in_none(line, children)
    ELSE IF c.tag = "CodeBlockFenced"
         THEN process_line_in_code_block(line, c.start, c.content, children)
    ELSE IF c.tag = "Paragraph" THEN process_line_in_paragraph(line, c.lines, children)
    ELSE IF c.tag = "Blockquote" THEN process_line_in_blockquote(line, c.lines, children)
    ELSE IF c.tag = "List" THEN process_line_in_list(line, c, children)
    ELSE process_line_in_code_block_indented(line, c.lines, c.pending_blank_count,
                                             children)

\* Iterator::fold over the lines
RECURSIVE fold_lines(_, _)
fold_lines(ls, st) ==
    IF ls = <<>> THEN st
    ELSE fold_lines(Tail(ls), process_line(ls[1], st[2], st[1]))

parse(input) ==
    IF input = <<>> THEN Document(<<>>)
    ELSE Let(fold_lines(lines(input), <<<<>>, CtxNone>>),
             LAMBDA st : Document(finalize_context(st[2], st[1])))

\* ------------------------------------------------------------------------
\* The inputs: every run draws its lines from one corpus, so that each
\* block kind meets the lines that open, continue, interrupt and close it.
\* ------------------------------------------------------------------------

\* The longest input, in lines.
MaxLines == 3

\* lines that each classifier of the Idle state decides
IdleLines ==
    { <<"-", " ", "-", " ", "-">>,
      <<"*", " ", "*", " ", "*">>,
      <<"-", "-", "-">>,
      <<"=", "=", "=">>,
      <<"#", " ", "h">>,
      <<BT, BT, BT>>,
      <<">", " ", "q">>,
      <<"-", " ", "a">>,
      <<"1", ".", " ", "a">>,
      <<" ", " ", " ", " ", "x">>,
      <<"\t", "a">>,
      <<"a">>,
      <<>>,
      <<" ", " ">> }

\* a paragraph and the lines that may end or continue it
ParagraphLines ==
    { <<"a">>,
      <<"-", "-", "-">>,
      <<"=", "=", "=">>,
      <<"-">>,
      <<" ", " ", "=", " ", " ">>,
      <<" ", " ", " ", " ", "-", "-", "-">>,
      <<"*", "*", "*">>,
      <<"#", " ", "h">>,
      <<">", " ", "q">>,
      <<"~", "~", "~">>,
      <<>>,
      <<" ", " ", " ", " ", "x">>,
      <<"\t", "x">> }

\* a paragraph and list markers with and without content
EmptyItemLines ==
    { <<"a">>,
      <<"+">>,
      <<"+", " ">>,
      <<"+", "\t">>,
      <<"+", " ", " ", " ", " ", " ">>,
      <<"+", " ", "b">>,
      <<"1", ".">>,
      <<"1", ".", " ", "b">>,
      <<"2", ")", " ">>,
      <<"*">>,
      <<"-">>,
      <<>> }

\* list items, their continuations and the lines that close a list
ListLines ==
    { <<"-", " ", "a">>,
      <<"*", " ", "b">>,
      <<"*", " ", "*", " ", "*">>,
      <<"-", " ", "-", " ", "-">>,
      <<>>,
      <<" ", " ", "b">>,
      <<"b">>,
      <<"-", " ", " ", " ", " ", "d">>,
      <<" ", " ", " ", " ", "-", " ", "e">>,
      <<"1", ".", " ", "a">>,
      <<"2", ".", " ", "b">>,
      <<"2", ")", " ", "b">> }

\* fences of both characters and their closing candidates
FenceLines ==
    { <<BT, BT, BT, BT>>,
      <<BT, BT, BT>>,
      <<BT, BT, BT, BT, BT>>,
      <<" ", " ", " ", BT, BT, BT, BT>>,
      <<" ", " ", " ", " ", BT, BT, BT, BT>>,
      <<"~", "~", "~", "~">>,
      <<"~", "~", "~">>,
      <<BT, BT, BT, BT, " ", "x">>,
      <<BT, BT, BT, BT, " ", "\t">>,
      <<" ", " ", "a">>,
      <<>> }

\* blockquote lines, lazy continuations and the lines that close a quote
QuoteLines ==
    { <<">", " ", "a">>,
      <<">", " ", "-", " ", "f", "o", "o">>,
      <<">", " ", "#", " ", "h">>,
      <<">", " ", "-", "-", "-">>,
      <<">">>,
      <<"b">>,
      <<>>,
      <<"-", " ", "b", "a", "r">>,
      <<"#", " ", "h">>,
      <<"-", "-", "-">>,
      <<BT, BT, BT>> }

\* nested blockquotes and lazy continuation lines
NestedQuoteLines ==
    { <<">", " ", "a">>,
      <<"b">>,
      <<">", " ", "c">>,
      <<">", ">", " ", "d">>,
      <<">", " ", ">", " ", "d">>,
      <<">", " ", ">", ">", " ", "d">>,
      <<" ", " ", " ", " ", "e">>,
      <<">">>,
      <<>> }

\* lines of an indented code block: indented by spaces and by a tab, blank
\* lines of 0, 2 and 4 spaces, and lines that end the block
IndentedLines ==
    { <<" ", " ", " ", " ", "a">>,
      <<" ", " ", " ", " ", " ">>,
      <<" ", " ", " ", " ", " ", " ", "b">>,
      <<" ", " ", " ", " ", "c", " ", " ">>,
      <<" ", " ", " ", " ">>,
      <<" ", " ">>,
      <<>>,
      <<"\t", "b">>,
      <<" ", " ", " ", "c">>,
      <<"c">> }

\* list items whose markers drift by 0 to 3 columns
DriftLines ==
    { <<"-", " ", "a">>,
      <<" ", "-", " ", "b">>,
      <<" ", " ", "-", " ", "c">>,
      <<" ", " ", " ", "-", " ", "d">> }

\* markers that drift by 0 to 3 columns, in and out
DriftingMarkers ==
    << <<"-", " ", "a">>, <<" ", "-", " ", "b">>, <<" ", " ", "-", " ", "c">>,
       <<" ", " ", " ", "-", " ", "d">>, <<" ", " ", "-", " ", "c">>,
       <<" ", "-", " ", "b">>, <<"-", " ", "a">> >>

\* The longest input drawn from DriftLines, in lines.
MaxDriftLines == 7

\* a list whose content indent grows until a marker indented by 4 spaces
\* is below it
FlaggedLines ==
    { <<"-", " ", "a">>,
      <<" ", "-", " ", "b">>,
      <<" ", " ", "-", " ", "c">>,
      <<" ", " ", " ", "-", " ", "d">>,
      <<" ", " ", " ", " ", "-", " ", "e">> }

\* The longest input drawn from FlaggedLines, in lines.
MaxFlaggedLines == 5

\* lines of `#` runs of 1 to 7, with and without a title, and setext underlines
HeadingLines ==
    { <<"#", "#", "#", "#", "#", "#", "#">>,
      <<"#", "#", "#", "#", "#", "#", "#", " ", "h">>,
      <<"#", "#", "#", "#", "#", "#", " ", "h">>,
      <<"#", "h">>,
      <<" ", "#", "#", " ", "h", " ", "#", "#">>,
      <<"a">>,
      <<"=", "=", "=">>,
      <<">", " ", "#", "#", " ", "q">>,
      <<"-", " ", "#", "#", "#", " ", "i">> }

\* lines of marker characters: runs, spaced runs, short and mixed ones
BreakLines ==
    { <<"*", "*", "*">>,
      <<"_", " ", "_", "\t", "_">>,
      <<" ", " ", " ", "-", "-", "-", "-", " ">>,
      <<" ", " ", " ", " ", "*", "*", "*">>,
      <<"*", "-", "*">>,
      <<"*", " ", "-", " ", "*">>,
      <<"-", " ", "*", " ", "*", " ", "*">>,
      <<"*", "*">>,
      <<"a">> }

\* ordered markers of 1 to 10 digits, with and without content
OrderedLines ==
    { <<"1", ".", " ", "a">>,
      <<"2", ".", " ", "b">>,
      <<"0", "0", "3", ".", " ", "c">>,
      <<" ", "0", ")", " ", "z">>,
      <<"1", "2", "3", "4", "5", "6", "7", "8", "9", ".", " ", "n">>,
      <<"1", "2", "3", "4", "5", "6", "7", "8", "9", "0", ".", " ", "n">>,
      <<"1", ".", "a">>,
      <<"7", ".">>,
      <<"-", " ", "b">>,
      <<"a">> }

\* The longest input drawn from FlaggedChunks, in lines.
MaxChunkLines == 7

\* a list whose fourth item has a flagged line, a blank line and a line
\* after it, read in this order
FlaggedChunks ==
    << <<"-", " ", "a">>, <<" ", "-", " ", "b">>, <<" ", " ", "-", " ", "c">>,
       <<" ", " ", " ", "-", " ", "d">>, <<" ", " ", " ", " ", "-", " ", "e">>,
       <<>>, <<" ", " ", " ", " ", " ", "f">> >>

\* The longest input drawn from LooseLines, in lines.
MaxLooseLines == 4

\* lines of lists with blank lines between and inside items, and an item
\* start of another marker type below a deeper item's content indent
LooseLines ==
    { <<"-", " ", "a">>,
      <<>>,
      <<" ", " ", "b">>,
      <<" ", "-", " ", "b">>,
      <<" ", " ", "*", " ", "x">> }

\* The longest input drawn from ShortLines, in lines.
MaxShortLines == 1

\* lines for what one line is taken as: list markers followed by spaces and
\* tabs, runs of `#`, headings with closing `#`, indentation by spaces and
\* tabs, runs of break markers, an indented blockquote marker
ShortLines ==
    { <<" ", " ", ">", " ", "q", " ">>,
      <<"-", " ", "x">>,
      <<"-", "\t", "x">>,
      <<"-", " ", "\t", "x">>,
      <<"-", " ", " ", " ", " ", " ", " ", "x">>,
      <<"+", " ", " ", "x">>,
      <<" ", " ", " ", "1", ")", " ", " ", " ", "y">>,
      <<"1", "2", ".", "\t", "y">>,
      <<"*">>,
      <<" ", "1", ".">>,
      <<"-", " ">>,
      <<"x">>,
      <<" ", " ", " ", "#", "#", "#", "#", "#", "#", "#", "#">>,
      <<"#", "#", "#", "#", "#", "#">>,
      <<"#", "\t", "h">>,
      <<">", " ", "#", "#", "#", "#", "#", "#", "#", " ", "q">>,
      <<"#", " ", "f", "o", "o", "#">>,
      <<"#", "#", " ", "f", "o", "o", " ", "#", "#">>,
      <<"#", "#", "#", " ", "#", "#", "#">>,
      <<"#", "#", "#", " ", "f", "o", "o", " ", "#", "#", "#", " ", "b">>,
      <<"#", " ", "f", " ", "\t", "#", "#", " ", " ">>,
      <<" ", " ", "\t", "#", " ", "h">>,
      <<"\t", "\t", "x">>,
      <<" ", "\t">>,
      <<"\t", " ", "x">>,
      <<"-", "-", "-">>,
      <<"\t", "_", "_", "_">>,
      <<"_", "_", "-">>,
      <<"-", "-">>,
      <<"*", "*", "*", "a">>,
      <<"+", "+", "+">>,
      <<">", " ", "_", "_", "_">>,
      <<>> }

CorpusNames ==
    {"idle", "paragraph", "empty_item", "list", "fence", "quote", "nested_quote",
     "indented", "drift", "flagged", "heading", "break", "ordered", "short",
     "loose", "chunks"}

\* the longest input of a corpus
MaxLinesOf(c) ==
    CASE c = "drift" -> MaxDriftLines
      [] c = "flagged" -> MaxFlaggedLines
      [] c = "short" -> MaxShortLines
      [] c = "loose" -> MaxLooseLines
      [] c = "chunks" -> MaxChunkLines
      [] OTHER -> MaxLines

Lines(c) ==
    CASE c = "idle" -> IdleLines
      [] c = "paragraph" -> ParagraphLines
      [] c = "empty_item" -> EmptyItemLines
      [] c = "list" -> ListLines
      [] c = "fence" -> FenceLines
      [] c = "quote" -> QuoteLines
      [] c = "nested_quote" -> NestedQuoteLines
      [] c = "indented" -> IndentedLines
      [] c = "drift" -> DriftLines
      [] c = "flagged" -> FlaggedLines
      [] c = "heading" -> HeadingLines
      [] c = "break" -> BreakLines
      [] c = "ordered" -> OrderedLines
      [] c = "short" -> ShortLines
      [] c = "loose" -> LooseLines
      [] c = "chunks" -> {FlaggedChunks[i] : i \in 1..Len(FlaggedChunks)}

\* ------------------------------------------------------------------------
\* Panics: a value that holds an out-of-range slice
\* ------------------------------------------------------------------------

string_panicked(s) == \E i \in 1..Len(s) : s[i] = "PANIC"

strings_panicked(ss) == \E i \in 1..Len(ss) : string_panicked(ss[i])

RECURSIVE node_panicked(_)
node_panicked(node) ==
    CASE node.type = "Text" -> string_panicked(node.text)
      [] node.type = "CodeBlock" ->
            string_panicked(node.content)
            \/ (node.info.some /\ string_panicked(node.info.v))
      [] node.type = "ThematicBreak" -> FALSE
      [] OTHER -> \E i \in 1..Len(node.children) : node_panicked(node.children[i])

context_panicked(c) ==
    CASE c.tag = "None" -> FALSE
      [] c.tag = "CodeBlockFenced" ->
            strings_panicked(c.content)
            \/ (c.start.info.some /\ string_panicked(c.start.info.v))
      [] c.tag = "List" ->
            string_panicked(c.first_item_start.content)
            \/ strings_panicked(item_contents(c.current_item_lines))
            \/ \E i \in 1..Len(c.items) : strings_panicked(item_contents(c.items[i]))
      [] OTHER -> strings_panicked(c.lines)

state_panicked(st) ==
    context_panicked(st[2]) \/ \E i \in 1..Len(st[1]) : node_panicked(st[1][i])

\* ------------------------------------------------------------------------
\* The parser as a state machine: parse (mod.rs) folds process_line over
\* the lines and then finalizes the last context.
\* ------------------------------------------------------------------------

VARIABLES
    corpus,     \* the corpus this run draws its lines from
    input,      \* the lines consumed so far
    pc,         \* "scan": inside the fold; "done": returned; "panic"
    children,   \* the finished nodes
    context,    \* the ParsingContext
    opened,     \* history: the number of the line that opened the context
    prev,       \* history: children, context and opened before the last step
    result      \* the returned Node, once parse has returned

vars == <<corpus, input, pc, children, context, opened, prev, result>>

Init ==
    /\ corpus \in CorpusNames
    /\ input = <<>>
    /\ pc = "scan"
    /\ children = <<>>
    /\ context = CtxNone
    /\ opened = 0
    /\ prev = [children |-> <<>>, context |-> CtxNone, opened |-> 0]
    /\ result = None

\* The step of the fold on one line, st being the handler's ParserState.
Fold(l, st) ==
    /\ input' = Append(input, l)
    /\ prev' = [children |-> children, context |-> context, opened |-> opened]
    /\ IF state_panicked(st)
       THEN /\ pc' = "panic"
            /\ UNCHANGED <<children, context, opened>>
       ELSE /\ pc' = "scan"
            /\ children' = st[1]
            /\ context' = st[2]
            /\ opened' = IF st[1] = children /\ st[2].tag = context.tag
                            /\ context.tag # "None"
                         THEN opened ELSE Len(input) + 1
    /\ UNCHANGED <<corpus, result>>

Scanning == pc = "scan" /\ Len(input) < MaxLinesOf(corpus)

\* the lines the next step draws from: any line of the corpus, and for the
\* drift and chunks corpora the next line of their sequence, read over again
\* at its end
NextLines ==
    IF corpus = "drift"
    THEN {DriftingMarkers[(Len(input) % Len(DriftingMarkers)) + 1]}
    ELSE IF corpus = "chunks"
    THEN {FlaggedChunks[(Len(input) % Len(FlaggedChunks)) + 1]}
    ELSE Lines(corpus)

ProcessLineInNone ==
    /\ Scanning /\ context.tag = "None"
    /\ \E l \in NextLines : Fold(l, process_line_in_none(l, children))

ProcessLineInCodeBlock ==
    /\ Scanning /\ context.tag = "CodeBlockFenced"
    /\ \E l \in NextLines :
          Fold(l, process_line_in_code_block(l, context.start, context.content, children))

\* a Paragraph step that also reads how many lines were read before
ProcessLineInParagraphCountingLines ==
    /\ Scanning /\ context.tag = "Paragraph"
    /\ \E l \in NextLines :
          Fold(l, IF Len(input) >= 2
                  THEN process_line_in_none(l, finalize_context(context, children))
                  ELSE process_line_in_paragraph(l, context.lines, children))

ProcessLineInParagraph ==
    /\ Scanning /\ context.tag = "Paragraph"
    /\ \E l \in NextLines :
          Fold(l, process_line_in_paragraph(l, context.lines, children))

ProcessLineInBlockquote ==
    /\ Scanning /\ context.tag = "Blockquote"
    /\ \E l \in NextLines :
          Fold(l, process_line_in_blockquote(l, context.lines, children))

ProcessLineInList ==
    /\ Scanning /\ context.tag = "List"
    /\ \E l \in NextLines : Fold(l, process_line_in_list(l, context, children))

ProcessLineInCodeBlockIndented ==
    /\ Scanning /\ context.tag = "CodeBlockIndented"
    /\ \E l \in NextLines :
          Fold(l, process_line_in_code_block_indented(l, context.lines,
                                                      context.pending_blank_count,
                                                      children))

\* parse on the empty input: the early return
ParseEmpty ==
    /\ pc = "scan" /\ input = <<>>
    /\ pc' = "done"
    /\ result' = Some(Document(<<>>))
    /\ UNCHANGED <<corpus, input, children, context, opened, prev>>

\* the end of the fold: finalize_context and the returned Document
FinalizeContext ==
    /\ pc = "scan" /\ input # <<>>
    /\ prev' = [children |-> children, context |-> context, opened |-> opened]
    /\ \E done \in {finalize_context(context, children)} :
          IF \E i \in 1..Len(done) : node_panicked(done[i])
          THEN pc' = "panic" /\ UNCHANGED <<children, result>>
          ELSE pc' = "done" /\ children' = done /\ result' = Some(Document(done))
    /\ context' = CtxNone
    /\ UNCHANGED <<corpus, input, opened>>

Next ==
    \/ ProcessLineInNone
    \/ ProcessLineInCodeBlock
    \/ ProcessLineInParagraph
    \/ ProcessLineInBlockquote
    \/ ProcessLineInList
    \/ ProcessLineInCodeBlockIndented
    \/ ParseEmpty
    \/ FinalizeContext

Spec == Init /\ [][Next]_vars

\* ------------------------------------------------------------------------
\* The last step, read from the history variables
\* ------------------------------------------------------------------------

\* the line the last step of the fold consumed
line == input[Len(input)]

\* the last step consumed a line
Stepped == pc = "scan" /\ input # <<>>

\* the last step consumed a line in the state `tag`
StepFrom(tag) == Stepped /\ prev.context.tag = tag

\* the nodes the last step (a line, or the end of the input) emitted
Emitted == SubSeq(children, Len(prev.children) + 1, Len(children))

\* the last step closed the container `tag`: a line that ended it, or the
\* end of the input
ClosedByLine(tag) == StepFrom(tag) /\ opened = Len(input)
ClosedAtEnd(tag) == pc = "done" /\ input # <<>> /\ prev.context.tag = tag
Closed(tag) == ClosedByLine(tag) \/ ClosedAtEnd(tag)

IsBlankLine(l) == \A i \in 1..Len(l) : IsWs(l[i])

IsRunOf(s, c) == s # <<>> /\ \A i \in 1..Len(s) : s[i] = c

IsThematicBreakLine(l) == thematic_break_parse(trim(l), calculate_indent(l)).some

\* ------------------------------------------------------------------------
\* C1
\* ------------------------------------------------------------------------

IsBlock(node) ==
    node.type \in {"Heading", "Paragraph", "Blockquote", "CodeBlock",
                   "ThematicBreak", "List"}

\* C1: parse is total.  No step of the fold and no finalization panics;
\* when parse has returned, the result is a Document whose children are
\* block nodes, and for the empty input it has no children.  (The fold
\* takes one step per line and then finalizes, so it ends with the input.)
C1_ParseTotal ==
    /\ pc # "panic"
    /\ pc = "scan" => ~result.some
    /\ pc = "done" =>
          /\ result.some
          /\ result.v.type = "Document"
          /\ \A i \in 1..Len(result.v.children) : IsBlock(result.v.children[i])
          /\ input = <<>> => result.v.children = <<>>

\* parse returned a Document of several blocks for a non-empty input
C1_Witness ==
    pc = "done" /\ Len(input) >= 2 /\ result.some /\ Len(result.v.children) >= 2

\* ------------------------------------------------------------------------
\* C2
\* ------------------------------------------------------------------------

\* Among the lines from..to, a blank line is followed by a non-blank one:
\* the list that held these lines consumed a blank line between or within
\* its items.
BlankConsumed(from, to) ==
    \E i \in from..(to - 1) : IsBlankLine(input[i]) /\ ~IsBlankLine(input[i + 1])

\* C2: a List is tight iff no blank line was consumed between or within
\* its items.  While the list is open its tight flag is false exactly when
\* a blank line of the list was followed by a line the list kept; the List
\* node emitted when a line or the end of the input closes the list carries
\* that flag, blank lines still pending at the close not counting.
C2_TightIffNoBlankConsumed ==
    /\ (pc = "scan" /\ context.tag = "List") =>
          (context.tight <=> ~BlankConsumed(opened, Len(input)))
    /\ ClosedByLine("List") =>
          /\ Emitted # <<>> /\ Emitted[1].type = "List"
          /\ Emitted[1].tight <=> ~BlankConsumed(prev.opened, Len(input) - 1)
    /\ ClosedAtEnd("List") =>
          /\ Len(Emitted) = 1 /\ Emitted[1].type = "List"
          /\ Emitted[1].tight <=> ~BlankConsumed(prev.opened, Len(input))

\* a list that consumed a blank line between its items was closed as loose
C2_Witness ==
    /\ Closed("List")
    /\ Emitted[1].type = "List" /\ ~Emitted[1].tight
    /\ Len(Emitted[1].children) >= 2

\* ------------------------------------------------------------------------
\* C3
\* ------------------------------------------------------------------------

\* same bullet character, or same ordered delimiter
SameMarkerType(m1, m2) ==
    \/ m1.kind = "Bullet" /\ m2.kind = "Bullet" /\ m1.char = m2.char
    \/ m1.kind = "Ordered" /\ m2.kind = "Ordered" /\ m1.delimiter = m2.delimiter

\* the last line added an item to the list that was open
ItemAdded ==
    /\ StepFrom("List") /\ context.tag = "List" /\ opened < Len(input)
    /\ Len(context.items) = Len(prev.context.items) + 1

\* the last line, in List state, is a list-item line below the current
\* content indent whose marker type differs from the list's
DifferingMarkerLine ==
    /\ StepFrom("List")
    /\ count_leading_char(line, " ") < prev.context.current_content_indent
    /\ list_item_try_start(line).ok
    /\ ~SameMarkerType(list_item_try_start(line).start.marker,
                       prev.context.first_item_start.marker)

\* the last line closed the open list and opened a new one with its marker
ClosesAndOpensList ==
    /\ Len(Emitted) = 1 /\ Emitted[1].type = "List"
    /\ Len(Emitted[1].children) = Len(prev.context.items) + 1
    /\ context.tag = "List" /\ opened = Len(input)
    /\ context.items = <<>>
    /\ context.first_item_start.marker = list_item_try_start(line).start.marker

\* C3 as stated: every item of a list is opened by a marker of the type of
\* the list's first marker, and a list-item line of another marker type
\* below the current content indent closes the list and opens a new List.
C3_DifferingMarkerOpensList ==
    /\ ItemAdded =>
          /\ list_item_try_start(line).ok
          /\ SameMarkerType(list_item_try_start(line).start.marker,
                            context.first_item_start.marker)
    /\ DifferingMarkerLine => ClosesAndOpensList

\* C3, amended: every item of a list is opened by a marker of the type of
\* the list's first marker; a list-item line of another marker type below
\* the current content indent never adds an item: it closes the list and,
\* replayed against Idle, opens a new List, unless the line is also a
\* thematic break (`* * *` under a `-` list), which emits a ThematicBreak
\* after the List and leaves the parser Idle.
C3_MarkerHomogeneity ==
    /\ ItemAdded =>
          /\ list_item_try_start(line).ok
          /\ SameMarkerType(list_item_try_start(line).start.marker,
                            context.first_item_start.marker)
    /\ DifferingMarkerLine =>
          IF IsThematicBreakLine(line)
          THEN /\ Len(Emitted) = 2 /\ Emitted[1].type = "List"
               /\ Len(Emitted[1].children) = Len(prev.context.items) + 1
               /\ Emitted[2] = ThematicBreak
               /\ context = CtxNone
          ELSE ClosesAndOpensList

\* a line with another marker closed a list and opened a new one
C3_Witness == DifferingMarkerLine /\ context.tag = "List"

\* ------------------------------------------------------------------------
\* C4
\* ------------------------------------------------------------------------

\* at most 3 spaces, a run of the fence character c at least n long, then
\* only spaces and tabs
ClosesFence(l, c, n) ==
    \E k \in 0..3 : \E m \in n..Len(l) :
        /\ k + m <= Len(l)
        /\ \A i \in 1..k : l[i] = " "
        /\ \A i \in (k + 1)..(k + m) : l[i] = c
        /\ \A i \in (k + m + 1)..Len(l) : l[i] \in {" ", "\t"}

\* C4: in CodeBlockFenced state a line closes the block, emitting one
\* CodeBlock with the stored info string and the joined content and going
\* Idle, iff it has at most 3 leading spaces, then a run of the opening
\* fence character at least as long as the opening fence, then only
\* whitespace; every other line is appended as one content line and the
\* state stays CodeBlockFenced.
C4_FenceCloses ==
    StepFrom("CodeBlockFenced") =>
        IF ClosesFence(line, prev.context.start.fence_char,
                       prev.context.start.fence_len)
        THEN /\ context = CtxNone
             /\ Emitted = <<CodeBlock(prev.context.start.info,
                                      join(prev.context.content, NL))>>
        ELSE /\ children = prev.children
             /\ context.tag = "CodeBlockFenced"
             /\ context.start = prev.context.start
             /\ Len(context.content) = Len(prev.context.content) + 1
             /\ SubSeq(context.content, 1, Len(prev.context.content))
                    = prev.context.content

\* a fence that is longer than the opening one, or indented, closed a block
\* that held content
C4_Witness ==
    /\ StepFrom("CodeBlockFenced")
    /\ ClosesFence(line, prev.context.start.fence_char, prev.context.start.fence_len)
    /\ Len(line) > prev.context.start.fence_len
    /\ prev.context.content # <<>>
    /\ context = CtxNone

\* ------------------------------------------------------------------------
\* C5
\* ------------------------------------------------------------------------

\* the inner text of the blockquote that was open: its buffered lines, the
\* marker and at most one space or tab after it removed from marker lines,
\* lazy-continuation lines kept, joined by newlines
QuoteInner == join(blockquote_contents(prev.context.lines, <<>>).v, NL)

\* C5: recursion consistency for blockquotes.  The Blockquote node emitted
\* when a blockquote is closed has the children of parse(inner), inner
\* being the blockquote's text without its markers.
C5_QuoteChildrenAreParsed ==
    Closed("Blockquote") =>
        /\ Emitted # <<>> /\ Emitted[1].type = "Blockquote"
        /\ Emitted[1].children = document_children(parse(QuoteInner))

\* ------------------------------------------------------------------------
\* C6
\* ------------------------------------------------------------------------

\* the items of the list that was open, as lines
ClosedItems == push_item(prev.context.items, prev.context.current_item_lines)

\* an item's buffered content lines joined by newlines
ItemText(item) == join(item_contents(item), NL)

HasTextOnly(item) == \E i \in 1..Len(item) : item[i].text_only

HasBlank(item) == \E i \in 1..Len(item) : item[i].content = <<>>

\* C6 as stated: recursion consistency for list items.  Every ListItem of
\* the List node emitted when a list is closed has the children of
\* parse(text), text being the item's content lines joined by newlines,
\* items with blank lines or a force-plain-text line included.
C6_EveryItemIsParsed ==
    Closed("List") =>
        /\ Emitted # <<>> /\ Emitted[1].type = "List"
        /\ Len(Emitted[1].children) = Len(ClosedItems)
        /\ \A i \in 1..Len(ClosedItems) :
              Emitted[1].children[i]
                  = ListItem(document_children(parse(ItemText(ClosedItems[i]))))

\* C6, amended: every ListItem none of whose lines is flagged
\* force-plain-text has the children of parse(text), items with blank
\* lines included; an item that holds a flagged line and no blank line
\* has one Paragraph of its whole text instead.
C6_UnflaggedItemIsParsed ==
    Closed("List") =>
        /\ Emitted # <<>> /\ Emitted[1].type = "List"
        /\ Len(Emitted[1].children) = Len(ClosedItems)
        /\ \A i \in 1..Len(ClosedItems) :
              IF ~HasTextOnly(ClosedItems[i])
              THEN Emitted[1].children[i]
                       = ListItem(document_children(parse(ItemText(ClosedItems[i]))))
              ELSE ~HasBlank(ClosedItems[i]) =>
                       Emitted[1].children[i]
                           = ListItem(<<Paragraph(<<Text(ItemText(ClosedItems[i]))>>)>>)

\* a closed list has an item that holds a blank line between two blocks
C6_Witness ==
    /\ Closed("List")
    /\ \E i \in 1..Len(ClosedItems) :
          /\ HasBlank(ClosedItems[i]) /\ ~HasTextOnly(ClosedItems[i])
          /\ Len(Emitted[1].children[i].children) = 2

\* ------------------------------------------------------------------------
\* C7
\* ------------------------------------------------------------------------

\* the open paragraph became one Heading of this level
ParagraphBecameHeading(level) ==
    /\ Emitted = <<Heading(level, <<Text(join(prev.context.lines, NL))>>)>>
    /\ context = CtxNone

\* C7: in Paragraph state the setext underline wins over the thematic
\* break.  A line indented at most 3 columns that trims to a run of '-'
\* turns the paragraph into a Heading of level 2, a run of '=' into a
\* Heading of level 1; the parser goes Idle and no ThematicBreak is
\* emitted.  In Idle `---` emits a ThematicBreak and `===` starts a
\* Paragraph.
C7_SetextBeforeBreak ==
    /\ (StepFrom("Paragraph") /\ calculate_indent(line) <= 3
            /\ IsRunOf(trim(line), "-")) => ParagraphBecameHeading(2)
    /\ (StepFrom("Paragraph") /\ calculate_indent(line) <= 3
            /\ IsRunOf(trim(line), "=")) => ParagraphBecameHeading(1)
    /\ (StepFrom("None") /\ calculate_indent(line) <= 3
            /\ trim(line) = <<"-", "-", "-">>) =>
          (Emitted = <<ThematicBreak>> /\ context = CtxNone)
    /\ (StepFrom("None") /\ calculate_indent(line) <= 3
            /\ trim(line) = <<"=", "=", "=">>) =>
          (Emitted = <<>> /\ context = CtxParagraph(<<trim(line)>>))

\* `---` under an open paragraph made it a level-2 Heading
C7_Witness ==
    /\ StepFrom("Paragraph") /\ trim(line) = <<"-", "-", "-">>
    /\ Len(Emitted) = 1 /\ Emitted[1].type = "Heading" /\ Emitted[1].level = 2

\* ------------------------------------------------------------------------
\* C8
\* ------------------------------------------------------------------------

\* a bullet or ordered list marker
IsListMarker(t) ==
    \/ t \in {<<"-">>, <<"+">>, <<"*">>}
    \/ /\ Len(t) >= 2 /\ Len(t) <= MaxOrderedDigits + 1
       /\ t[Len(t)] \in {".", ")"}
       /\ \A i \in 1..(Len(t) - 1) : is_ascii_digit(t[i])

\* an empty list item: at most 3 spaces, a marker, then nothing or only
\* whitespace
IsEmptyItemLine(l) ==
    /\ count_leading_char(l, " ") <= 3
    /\ IsListMarker(trim(l))
    /\ l[count_leading_char(l, " ") + 1] = trim(l)[1]

\* C8: in Paragraph state an empty list item never interrupts the
\* paragraph: unless the line is a setext underline or a thematic break,
\* no node is emitted, the state stays Paragraph and the trimmed line is
\* appended.
C8_EmptyItemNeverInterrupts ==
    (/\ StepFrom("Paragraph")
     /\ IsEmptyItemLine(line)
     /\ ~try_start_heading_setext(trim(line), calculate_indent(line)).ok
     /\ ~IsThematicBreakLine(line)) =>
        /\ children = prev.children
        /\ context = CtxParagraph(push_string(prev.context.lines, trim(line)))

\* ------------------------------------------------------------------------
\* C9
\* ------------------------------------------------------------------------

\* The transition of the Idle state when the classifiers are tried in the
\* order thematic break, ATX heading, fenced-code start, blockquote marker,
\* list-item start, indented-code start, paragraph.
IdleByPrecedence(l, cs) ==
    LET indent == calculate_indent(l)
        trimmed == trim(l)
    IN  IF thematic_break_parse(trimmed, indent).some
        THEN <<push_node(cs, thematic_break_parse(trimmed, indent).v), CtxNone>>
        ELSE IF heading_parse(trimmed, indent).some
        THEN <<push_node(cs, heading_parse(trimmed, indent).v), CtxNone>>
        ELSE IF try_start_code_block_fenced(l).ok
        THEN <<cs, CtxCodeBlockFenced(try_start_code_block_fenced(l).start, <<>>)>>
        ELSE IF starts_with(trimmed, ">") /\ indent <= 3
        THEN <<cs, CtxBlockquote(<<trimmed>>)>>
        ELSE IF list_item_try_start(l).ok
        THEN <<cs, ListStartContext(list_item_try_start(l).start)>>
        ELSE IF try_start_code_block_indented(l).ok
        THEN <<cs, CtxCodeBlockIndented(<<try_start_code_block_indented(l).content>>, 0)>>
        ELSE <<cs, CtxParagraph(<<trimmed>>)>>

\* C9: in Idle state the first classifier that matches, in the order
\* thematic break, ATX heading, fenced-code start, blockquote marker,
\* list-item start, indented-code start, paragraph, decides the
\* transition; a line that is both a thematic break and a list-item start
\* emits a ThematicBreak and leaves the parser Idle.
C9_IdlePrecedence ==
    /\ (StepFrom("None") /\ ~IsBlankLine(line)) =>
          <<children, context>> = IdleByPrecedence(line, prev.children)
    /\ (StepFrom("None") /\ IsThematicBreakLine(line)
            /\ list_item_try_start(line).ok) =>
          (Emitted = <<ThematicBreak>> /\ context = CtxNone)

\* a thematic break that is also a list-item start was emitted in Idle
C9_Witness ==
    /\ StepFrom("None") /\ list_item_try_start(line).ok
    /\ Emitted = <<ThematicBreak>> /\ context = CtxNone

\* ------------------------------------------------------------------------
\* C10
\* ------------------------------------------------------------------------

\* the line matches one of the classifiers that interrupt a paragraph
InterruptsParagraph(l) ==
    \/ try_start_code_block_fenced(l).ok
    \/ try_start_heading_setext(trim(l), calculate_indent(l)).ok
    \/ thematic_break_parse(trim(l), calculate_indent(l)).some
    \/ heading_parse(trim(l), calculate_indent(l)).some
    \/ starts_with(trim(l), ">") /\ calculate_indent(l) <= 3
    \/ list_item_try_start(l).ok /\ list_item_try_start(l).start.content # <<>>

\* the line was appended, trimmed, to the open paragraph
AppendedToParagraph ==
    /\ children = prev.children
    /\ context = CtxParagraph(push_string(prev.context.lines, trim(line)))

\* C10: in Paragraph state a non-blank line that matches no interrupting
\* classifier is appended, trimmed, and the state stays Paragraph; a
\* non-blank line indented 4 or more columns is such a line, and
\* CodeBlockIndented is never entered from Paragraph.
C10_NoIndentedCodeInParagraph ==
    StepFrom("Paragraph") =>
        /\ context.tag # "CodeBlockIndented"
        /\ (~IsBlankLine(line) /\ ~InterruptsParagraph(line)) => AppendedToParagraph
        /\ (~IsBlankLine(line) /\ calculate_indent(line) >= 4) => AppendedToParagraph

\* a line indented 4 columns was appended to the open paragraph
C10_Witness ==
    /\ StepFrom("Paragraph") /\ ~IsBlankLine(line)
    /\ count_leading_char(line, " ") >= 4
    /\ AppendedToParagraph


\* ------------------------------------------------------------------------
\* C11
\* ------------------------------------------------------------------------

\* the lines of the input that the blockquote that was open has buffered
QuoteInputLines ==
    SubSeq(input, prev.opened, IF pc = "done" THEN Len(input) ELSE Len(input) - 1)

\* a line without its `>` and at most one space or tab after it
WithoutMarker(l) ==
    IF Len(l) >= 2 /\ l[2] \in {" ", "\t"} THEN SubSeq(l, 3, Len(l))
    ELSE SubSeq(l, 2, Len(l))

\* what a line gives to the blockquote's text: the trimmed line, without
\* the marker when it begins with `>`
TrimmedContribution(l) ==
    IF starts_with(trim(l), ">") THEN WithoutMarker(trim(l)) ELSE trim(l)

\* the same, a line without `>` being kept as it is
VerbatimContribution(l) ==
    IF starts_with(trim(l), ">") THEN WithoutMarker(trim(l)) ELSE l

\* the Blockquote node built from the lines' contributions
QuoteOf(contributions) ==
    Blockquote(map_parse_block(filter_nonempty(split_blank(join(contributions, NL)))))

\* a non-blank line that does not close a blockquote
ContinuesQuote(l) ==
    /\ ~IsBlankLine(l)
    /\ ~try_start_code_block_fenced(l).ok
    /\ ~IsThematicBreakLine(l)
    /\ ~heading_parse(trim(l), calculate_indent(l)).some

QuoteClosedThen(after) ==
    /\ Emitted # <<>>
    /\ Emitted[1].type = "Blockquote"
    /\ Some(Emitted[1]) = blockquote_parse_text(join(prev.context.lines, NL))
    /\ Tail(Emitted) = after

\* C12: in Blockquote state a blank line, a fenced-code start, a thematic
\* break or an ATX heading closes the blockquote.  One Blockquote node is
\* emitted first; then a blank line leaves the parser Idle, a fence start
\* opens a fenced code block with no content, and a thematic break or a
\* heading is emitted after the Blockquote, the parser being Idle.
C12_QuoteClosedBeforeLine ==
    StepFrom("Blockquote") =>
        /\ IsBlankLine(line) => (QuoteClosedThen(<<>>) /\ context = CtxNone)
        /\ try_start_code_block_fenced(line).ok =>
              /\ QuoteClosedThen(<<>>)
              /\ context = CtxCodeBlockFenced(try_start_code_block_fenced(line).start, <<>>)
        /\ IsThematicBreakLine(line) =>
              (QuoteClosedThen(<<ThematicBreak>>) /\ context = CtxNone)
        /\ heading_parse(trim(line), calculate_indent(line)).some =>
              /\ QuoteClosedThen(<<heading_parse(trim(line), calculate_indent(line)).v>>)
              /\ context = CtxNone

\* an ATX heading closed a blockquote and was emitted after it
C12_Witness ==
    /\ StepFrom("Blockquote")
    /\ Len(Emitted) = 2
    /\ Emitted[1].type = "Blockquote" /\ Emitted[2].type = "Heading"
    /\ context = CtxNone


\* ------------------------------------------------------------------------
\* C13
\* ------------------------------------------------------------------------

\* the number of `>` markers a line begins with, spaces between them or not
RECURSIVE MarkerDepth(_)
MarkerDepth(l) ==
    IF starts_with(trim(l), ">") THEN 1 + MarkerDepth(Tail(trim(l))) ELSE 0

\* the text of a line after its markers
RECURSIVE TextAfterMarkers(_)
TextAfterMarkers(l) ==
    IF starts_with(trim(l), ">") THEN TextAfterMarkers(Tail(trim(l))) ELSE trim(l)

\* a non-empty text of letters
IsPlainText(s) == s # <<>> /\ \A i \in 1..Len(s) : s[i] \in {"a", "b", "c", "d", "e"}

\* k Blockquote nodes, each the only child of the one above, around a node
RECURSIVE Nested(_, _)
Nested(k, node) == IF k = 0 THEN node ELSE Blockquote(<<Nested(k - 1, node)>>)

\* the buffered lines are lines of k markers and a text, the first being
\* one, and lines without a marker
LinesOfDepth(k) ==
    /\ QuoteInputLines # <<>>
    /\ MarkerDepth(QuoteInputLines[1]) = k
    /\ \A i \in 1..Len(QuoteInputLines) :
          /\ MarkerDepth(QuoteInputLines[i]) \in {0, k}
          /\ IsPlainText(TextAfterMarkers(QuoteInputLines[i]))

\* C13: a blockquote whose lines carry k >= 1 markers before the text is k
\* nested Blockquote nodes, each the only child of the one above, the
\* innermost holding one Paragraph; a line without a marker continues that
\* paragraph.
C13_NestedQuotes ==
    \A k \in 1..3 :
        (Closed("Blockquote") /\ LinesOfDepth(k)) =>
            /\ Emitted # <<>>
            /\ Emitted[1] =
                  Nested(k, Paragraph(<<Text(join(
                      [i \in 1..Len(QuoteInputLines) |->
                          TextAfterMarkers(QuoteInputLines[i])], NL))>>))

\* a line of three markers and a line without a marker made three nested
\* Blockquote nodes around one Paragraph of two lines
C13_Witness ==
    /\ Closed("Blockquote") /\ LinesOfDepth(3)
    /\ \E i \in 1..Len(QuoteInputLines) : MarkerDepth(QuoteInputLines[i]) = 0
    /\ Emitted[1].children[1].children[1].children[1].type = "Paragraph"


\* ------------------------------------------------------------------------
\* C14
\* ------------------------------------------------------------------------

\* the block node that the end of the input makes of a state
TrailingType(tag) ==
    CASE tag = "Paragraph" -> "Paragraph"
      [] tag = "Blockquote" -> "Blockquote"
      [] tag = "List" -> "List"
      [] tag = "CodeBlockFenced" -> "CodeBlock"
      [] tag = "CodeBlockIndented" -> "CodeBlock"

\* the lines after the opening fence, without the indentation of the fence
LinesAfterFence ==
    [i \in 1..(Len(input) - prev.opened) |->
        remove_indent(input[prev.opened + i], prev.context.start.indent)]

\* C14: when the input ends in a state that is not Idle, exactly one block
\* node is appended to the Document for that state, and none when it is
\* Idle; a fenced code block without a closing fence is a CodeBlock with
\* its info string and every line after the opening fence as content.
C14_EndOfInput ==
    (pc = "done" /\ input # <<>>) =>
        /\ result = Some(Document(children))
        /\ SubSeq(children, 1, Len(prev.children)) = prev.children
        /\ prev.context.tag = "None" => Emitted = <<>>
        /\ prev.context.tag # "None" =>
              /\ Len(Emitted) = 1
              /\ Emitted[1].type = TrailingType(prev.context.tag)
        /\ prev.context.tag = "CodeBlockFenced" =>
              Emitted = <<CodeBlock(prev.context.start.info, join(LinesAfterFence, NL))>>

\* the input ended in a fenced code block that has an info string and
\* two content lines
C14_Witness ==
    /\ ClosedAtEnd("CodeBlockFenced")
    /\ prev.context.start.info.some
    /\ Len(LinesAfterFence) = 2
    /\ Emitted[1].content # <<>>


\* ------------------------------------------------------------------------
\* C15
\* ------------------------------------------------------------------------

\* a line without its first n columns of indentation, a space being one
\* column and a tab four
RECURSIVE StripColumns(_, _)
StripColumns(l, n) ==
    IF n <= 0 \/ l = <<>> THEN l
    ELSE IF l[1] = " " THEN StripColumns(Tail(l), n - 1)
    ELSE IF l[1] = "\t" THEN StripColumns(Tail(l), n - 4)
    ELSE l

\* C15: in Idle state every non-blank line indented 4 or more columns, a
\* space being 1 column and a tab 4, opens an indented code block whose one
\* content line is the line without its first 4 columns, for lines
\* indented with spaces and with tabs alike.
C15_IndentedCodeStart ==
    (StepFrom("None") /\ ~IsBlankLine(line) /\ calculate_indent(line) >= 4) =>
        /\ children = prev.children
        /\ context = CtxCodeBlockIndented(<<StripColumns(line, 4)>>, 0)


\* ------------------------------------------------------------------------
\* C16
\* ------------------------------------------------------------------------

\* the state after the open indented code block is closed and the line is
\* processed by Idle
IndentedCodeClosedThenIdle ==
    process_line_in_none(line,
        Append(prev.children, CodeBlock(None, trim_blank_lines(prev.context.lines))))

\* C16: in CodeBlockIndented state a line indented 4 or more columns is
\* appended without its first 4 columns, after one empty line per pending
\* blank; a blank line of fewer than 4 columns only counts as pending; a
\* non-blank line of fewer than 4 columns emits one CodeBlock without info,
\* its content the accumulated lines without leading and trailing blank
\* lines, the pending blanks dropped, and is then processed by Idle.
C16_IndentedCodeLines ==
    StepFrom("CodeBlockIndented") =>
        /\ calculate_indent(line) >= 4 =>
              /\ children = prev.children
              /\ context = CtxCodeBlockIndented(
                     prev.context.lines
                         \o [i \in 1..prev.context.pending_blank_count |-> <<>>]
                         \o <<StripColumns(line, 4)>>, 0)
        /\ (calculate_indent(line) < 4 /\ IsBlankLine(line)) =>
              /\ children = prev.children
              /\ context = CtxCodeBlockIndented(prev.context.lines,
                                                prev.context.pending_blank_count + 1)
        /\ (calculate_indent(line) < 4 /\ ~IsBlankLine(line)) =>
              <<children, context>> = IndentedCodeClosedThenIdle


\* ------------------------------------------------------------------------
\* C17
\* ------------------------------------------------------------------------

\* the last line, in List state, has 0 to 3 leading spaces, fewer than the
\* current content indent, and a marker of the list's type
SameMarkerLine ==
    /\ StepFrom("List")
    /\ count_leading_char(line, " ") <= 3
    /\ count_leading_char(line, " ") < prev.context.current_content_indent
    /\ list_item_try_start(line).ok
    /\ SameMarkerType(list_item_try_start(line).start.marker,
                      prev.context.first_item_start.marker)

\* C17: in List state a line of 0 to 3 leading spaces, fewer than the
\* current content indent, with a marker of the list's type closes the
\* current item and opens a new item of the same list, never a nested or a
\* new List, and the current content indent becomes the new item's;
\* markers that drift by 0 to 3 columns make one flat List of 7 items.
C17_SiblingItem ==
    /\ SameMarkerLine =>
          /\ children = prev.children
          /\ context.tag = "List"
          /\ context.first_item_start = prev.context.first_item_start
          /\ context.items = Append(prev.context.items, prev.context.current_item_lines)
          /\ context.current_item_lines
                = <<ItemLine_text(list_item_try_start(line).start.content)>>
          /\ context.current_content_indent
                = list_item_try_start(line).start.content_indent
    /\ (pc = "done" /\ input = DriftingMarkers) =>
          /\ Len(children) = 1 /\ children[1].type = "List"
          /\ Len(children[1].children) = 7
          /\ \A i \in 1..7 :
                children[1].children[i]
                    = ListItem(<<Paragraph(<<Text(<<input[i][Len(input[i])]>>)>>)>>)

\* the drifting markers were parsed to the end
C17_Witness ==
    /\ pc = "done" /\ input = DriftingMarkers
    /\ Len(children[1].children) = 7


\* ------------------------------------------------------------------------
\* C18
\* ------------------------------------------------------------------------

\* the last line, in List state, is a non-blank line of 4 or more leading
\* spaces, fewer than the current content indent and no fewer than the
\* first item's content indent
DeepMarkerLine ==
    /\ StepFrom("List") /\ ~IsBlankLine(line)
    /\ count_leading_char(line, " ") >= 4
    /\ count_leading_char(line, " ") < prev.context.current_content_indent
    /\ count_leading_char(line, " ") >= prev.context.first_item_start.content_indent

\* line j of an item is a blank line that is not flagged
IsDelimiter(item, j) == trim(item[j].content) = <<>> /\ ~item[j].text_only

\* the run of lines around line j of an item, between blank lines
RunAround(item, j) ==
    LET first == Max({0} \cup {i \in 1..j : IsDelimiter(item, i)}) + 1
        last == Min({Len(item) + 1} \cup {i \in j..Len(item) : IsDelimiter(item, i)}) - 1
    IN  SubSeq(item, first, last)

\* markers indented by 0 to 4 spaces, one more on each line
DeepeningMarkers ==
    << <<"-", " ", "a">>, <<" ", "-", " ", "b">>, <<" ", " ", "-", " ", "c">>,
       <<" ", " ", " ", "-", " ", "d">>, <<" ", " ", " ", " ", "-", " ", "e">> >>

\* C18: in List state a line of 4 or more leading spaces, below the
\* current content indent and at or above the first item's, opens no item:
\* it is appended to the current item flagged force-plain-text.  When the
\* list is closed, the run of lines between blank lines that holds a
\* flagged line is one Paragraph of those lines joined by newlines, and a
\* flagged item holds no nested List made of such a run.
C18_FlaggedLineIsPlainText ==
    /\ DeepMarkerLine =>
          /\ children = prev.children
          /\ context.tag = "List"
          /\ context.items = prev.context.items
          /\ context.current_content_indent = prev.context.current_content_indent
          /\ context.current_item_lines =
                prev.context.current_item_lines
                    \o [i \in 1..prev.context.pending_blank_count |-> ItemLine_blank]
                    \o <<ItemLine_text_only(
                           SubSeq(line, count_leading_char(line, " ") + 1, Len(line)))>>
    /\ Closed("List") =>
          \A i \in 1..Len(ClosedItems) : \A j \in 1..Len(ClosedItems[i]) :
              ClosedItems[i][j].text_only =>
                  \E c \in 1..Len(Emitted[1].children[i].children) :
                      Emitted[1].children[i].children[c] =
                          Paragraph(<<Text(join(
                              item_contents(RunAround(ClosedItems[i], j)), NL))>>)
    /\ (pc = "done" /\ input = DeepeningMarkers) =>
          children[1].children[4]
              = ListItem(<<Paragraph(<<Text(<<"d", "\n", "-", " ", "e">>)>>)>>)

\* `    - e` under the item `   - d` made one Paragraph of the two lines
C18_Witness ==
    /\ pc = "done" /\ input = DeepeningMarkers
    /\ Len(children[1].children) = 4
    /\ HasTextOnly(ClosedItems[4])

\* ------------------------------------------------------------------------
\* C19
\* ------------------------------------------------------------------------

\* the levels of the Heading nodes of a node, at any depth
RECURSIVE HeadingLevels(_)
HeadingLevels(node) ==
    CASE node.type = "Heading" -> {node.level}
      [] node.type \in {"Document", "Blockquote", "List", "ListItem"} ->
            UNION {HeadingLevels(node.children[i]) : i \in 1..Len(node.children)}
      [] OTHER -> {}

\* the `#` characters a line starts with, after its indentation
LeadingHashes(l) == count_leading_char(trim(l), "#")

\* what follows the leading `#` characters of a line
AfterHashes(l) == SubSeq(trim(l), LeadingHashes(l) + 1, Len(trim(l)))

\* a line of 7 or more leading `#`, indented by less than 4 columns
TooManyHashes(l) == calculate_indent(l) <= 3 /\ LeadingHashes(l) >= 7

\* C19: every Heading node, at any depth of the nodes emitted so far and
\* of the returned Document, has a level in 1..6.  A line parsed as an ATX
\* heading has between 1 and 6 leading `#`, followed by nothing or by a
\* space or tab, and the heading's level is that count.  A Heading emitted
\* from a paragraph by a setext underline has level 1 or 2.  A line of 7
\* or more leading `#` makes no state emit a Heading, and in Idle it emits
\* nothing and starts a Paragraph whose text is the line.
C19_HeadingLevelInRange ==
    /\ \A i \in 1..Len(children) : HeadingLevels(children[i]) \subseteq 1..6
    /\ result.some => HeadingLevels(result.v) \subseteq 1..6
    /\ Stepped =>
          /\ heading_parse(trim(line), calculate_indent(line)).some =>
                /\ LeadingHashes(line) \in 1..6
                /\ AfterHashes(line) = <<>> \/ AfterHashes(line)[1] \in {" ", "\t"}
                /\ heading_parse(trim(line), calculate_indent(line)).v.level
                      = LeadingHashes(line)
          /\ (StepFrom("Paragraph") /\ Emitted # <<>> /\ Emitted[1].type = "Heading") =>
                Emitted[1].level \in {1, 2}
          /\ TooManyHashes(line) =>
                /\ \A i \in 1..Len(Emitted) : Emitted[i].type # "Heading"
                /\ StepFrom("None") =>
                      (Emitted = <<>> /\ context = CtxParagraph(<<trim(line)>>))

\* `###### h` then `####### h`: a Heading of level 6 and a Paragraph
C19_Witness ==
    /\ pc = "done"
    /\ input = << <<"#", "#", "#", "#", "#", "#", " ", "h">>,
                  <<"#", "#", "#", "#", "#", "#", "#", " ", "h">> >>
    /\ result.v.children =
          << Heading(6, <<Text(<<"h">>)>>),
             Paragraph(<<Text(<<"#", "#", "#", "#", "#", "#", "#", " ", "h">>)>>) >>

\* ------------------------------------------------------------------------
\* C20
\* ------------------------------------------------------------------------

\* the positions of a line that hold neither a space nor a tab
NonBlankPositions(l) == {i \in 1..Len(l) : l[i] \notin {" ", "\t"}}

\* the line is made of 3 or more of one marker character and of spaces and
\* tabs, and is indented by less than 4 columns
BreakShaped(l) ==
    /\ calculate_indent(l) <= 3
    /\ NonBlankPositions(l) # {}
    /\ \E c \in {"*", "-", "_"} :
          /\ l[Min(NonBlankPositions(l))] = c
          /\ \A i \in NonBlankPositions(l) : l[i] = c
          /\ Cardinality(NonBlankPositions(l)) >= 3

\* C20: a line is parsed as a thematic break only if it is indented by at
\* most 3 columns, its first non-blank character c is `*`, `-` or `_`,
\* every other character is c, a space or a tab, and c occurs 3 times or
\* more.  In every state, a line that is not of that shape (two marker
\* characters mixed, or any other character) emits no ThematicBreak node.
C20_ThematicBreakExclusive ==
    Stepped =>
        /\ IsThematicBreakLine(line) => BreakShaped(line)
        /\ ~BreakShaped(line) =>
              \A i \in 1..Len(Emitted) : Emitted[i].type # "ThematicBreak"

\* `*-*` then `***`: the mixed line is paragraph text, the run is a break
C20_Witness ==
    /\ pc = "done"
    /\ input = << <<"*", "-", "*">>, <<"*", "*", "*">> >>
    /\ children = << Paragraph(<<Text(<<"*", "-", "*">>)>>), ThematicBreak >>

\* ------------------------------------------------------------------------
\* C21
\* ------------------------------------------------------------------------

\* a line without its leading spaces
Unindented(l) == SubSeq(l, count_leading_char(l, " ") + 1, Len(l))

\* the digits a line starts with, after its leading spaces
LeadingDigits(l) ==
    SubSeq(Unindented(l), 1,
           Cardinality({n \in 1..Len(Unindented(l)) :
                           \A i \in 1..n : is_ascii_digit(Unindented(l)[i])}))

\* the decimal value of a sequence of digits
RECURSIVE NumberOf(_)
NumberOf(ds) ==
    IF ds = <<>> THEN 0
    ELSE digit_value(ds[1]) * 10 ^ (Len(ds) - 1) + NumberOf(Tail(ds))

\* 1 to 9 digits, then `.` or `)`, then a space, a tab or the end of the line
OrderedShaped(l) ==
    /\ count_leading_char(l, " ") <= 3
    /\ Len(LeadingDigits(l)) \in 1..9
    /\ Len(Unindented(l)) > Len(LeadingDigits(l))
    /\ Unindented(l)[Len(LeadingDigits(l)) + 1] \in {".", ")"}
    /\ \/ Len(Unindented(l)) = Len(LeadingDigits(l)) + 1
       \/ Unindented(l)[Len(LeadingDigits(l)) + 2] \in {" ", "\t"}

\* the line starts a list item with an ordered marker
OrderedStart(l) ==
    list_item_try_start(l).ok /\ list_item_try_start(l).start.marker.kind = "Ordered"

\* the start number of the list that the line opens
StartNumberOf(l) ==
    IF OrderedStart(l) THEN NumberOf(LeadingDigits(l)) ELSE 1

\* C21: a line starts an item with an ordered marker exactly when, after at
\* most 3 spaces, it has 1 to 9 digits, then `.` or `)`, then a space, a
\* tab or the end of the line; 10 digits, or a character other than
\* whitespace after the delimiter, make no marker.  The marker's start is
\* the decimal value of the digits.  A List node emitted when the list
\* ends has the start number of the line that opened the list, whatever
\* the numbers of its later items, and 1 when that line has a bullet.
C21_OrderedMarker ==
    /\ Stepped =>
          /\ OrderedStart(line) <=> OrderedShaped(line)
          /\ OrderedStart(line) =>
                list_item_try_start(line).start.marker.start
                    = NumberOf(LeadingDigits(line))
    /\ Closed("List") =>
          /\ Emitted # <<>> /\ Emitted[1].type = "List"
          /\ Emitted[1].start = StartNumberOf(input[prev.opened])
          /\ Emitted[1].list_type.kind
                = list_item_try_start(input[prev.opened]).start.marker.kind

\* `003. c`, `2. b`, `1. a`: one ordered List of 3 items that starts at 3
C21_Witness ==
    /\ pc = "done"
    /\ input = << <<"0", "0", "3", ".", " ", "c">>, <<"2", ".", " ", "b">>,
                  <<"1", ".", " ", "a">> >>
    /\ Len(children) = 1 /\ children[1].type = "List"
    /\ children[1].start = 3 /\ Len(children[1].children) = 3

\* ------------------------------------------------------------------------
\* C22
\* ------------------------------------------------------------------------

\* the width of the marker of a line that starts a list item
MarkerWidth(l) == IF OrderedStart(l) THEN Len(LeadingDigits(l)) + 1 ELSE 1

\* what follows the marker of a line that starts a list item
AfterMarker(l) == SubSeq(Unindented(l), MarkerWidth(l) + 1, Len(Unindented(l)))

\* the columns of the whitespace after the marker that count into the
\* content indent: a space 1, a tab 4, at most 4 in all
FollowingColumns(l) == min(calculate_indent(AfterMarker(l)), 4)

\* C22: for every line that starts a list item, the content indent is the
\* indentation plus the marker's width plus the columns of the whitespace
\* after the marker (a space 1 column, a tab 4), that last part capped at
\* 4 and 0 only when the marker ends the line; the item's first content
\* line is the text of the line from that column on.
C22_ContentIndent ==
    (Stepped /\ list_item_try_start(line).ok) =>
        /\ list_item_try_start(line).start.content_indent
              = count_leading_char(line, " ") + MarkerWidth(line) + FollowingColumns(line)
        /\ FollowingColumns(line) = 0 <=> AfterMarker(line) = <<>>
        /\ list_item_try_start(line).start.content
              = StripColumns(AfterMarker(line), FollowingColumns(line))

\* ------------------------------------------------------------------------
\* C23
\* ------------------------------------------------------------------------

\* the markers of the input lines that start a list item
MarkersSeen ==
    {list_item_try_start(input[i]).start.marker :
        i \in {j \in 1..Len(input) : list_item_try_start(input[j]).ok}}

\* the marker with another start number
Renumbered(m, n) == IF m.kind = "Ordered" THEN Ordered(n, m.delimiter) ELSE m

\* C23: over the markers of the lines of every input, is_same_type is
\* reflexive, symmetric and transitive; it holds exactly for two bullets of
\* the same character and for two ordered markers of the same delimiter;
\* it does not change when the start number of either marker is replaced;
\* a bullet and an ordered marker are never of the same type.
C23_SameTypeEquivalence ==
    pc = "done" => \A seen \in {MarkersSeen} : \A m1 \in seen :
        /\ is_same_type(m1, m1)
        /\ \A m2 \in seen :
              /\ is_same_type(m1, m2) <=> is_same_type(m2, m1)
              /\ is_same_type(m1, m2) <=> SameMarkerType(m1, m2)
              /\ (m1.kind = "Bullet" /\ m2.kind = "Ordered") => ~is_same_type(m1, m2)
              /\ \A m3 \in seen :
                    /\ (is_same_type(m1, m2) /\ is_same_type(m2, m3)) =>
                          is_same_type(m1, m3)
                    /\ m3.kind = "Ordered" =>
                          /\ is_same_type(m1, m2)
                                <=> is_same_type(Renumbered(m1, m3.start), m2)
                          /\ is_same_type(m1, m2)
                                <=> is_same_type(m1, Renumbered(m2, m3.start))

\* `1. a`, `2. b`, `- b`: markers 1. and 2. are of the same type and share
\* a List, the bullet is of another type and opens a second List
C23_Witness ==
    /\ pc = "done"
    /\ input = << <<"1", ".", " ", "a">>, <<"2", ".", " ", "b">>, <<"-", " ", "b">> >>
    /\ MarkersSeen = {Ordered(1, "."), Ordered(2, "."), Bullet("-")}
    /\ Len(children) = 2
    /\ children[1].type = "List" /\ Len(children[1].children) = 2
    /\ children[2].type = "List" /\ children[2].list_type.kind = "Bullet"

\* ------------------------------------------------------------------------
\* C24
\* ------------------------------------------------------------------------

\* the state of a second run of the fold over the lines read so far
SecondRun == fold_lines(input, <<<<>>, CtxNone>>)

TrailingHashes(s) ==
    Cardinality({n \in 1..Len(s) : \A i \in (Len(s) - n + 1)..Len(s) : s[i] = "#"})

\* the content of an ATX heading line: the trimmed text after the opening
\* `#`, without a closing run of `#` that follows a space or tab or that is
\* the whole text
HeadingContent(l) ==
    LET r == trim(AfterHashes(l))
        k == TrailingHashes(r)
    IN  IF k = 0 THEN r
        ELSE IF k = Len(r) THEN <<>>
        ELSE IF r[Len(r) - k] \in {" ", "\t"} THEN trim_end(SubSeq(r, 1, Len(r) - k))
        ELSE r

\* the Idle step on the line emitted one Heading with that level and text
IdleHeading(l, level, text) ==
    (StepFrom("None") /\ line = l) =>
        (Emitted = <<Heading(level, <<Text(text)>>)>> /\ context = CtxNone)

\* C25: the text of the Heading that an ATX heading line gives is the text
\* after the opening `#`, trimmed, and without its trailing run of `#` and
\* the whitespace before it when a space or tab precedes the run or when
\* the text is all `#`; otherwise the trailing `#` stay.  `# foo#` gives
\* `foo#`, `## foo ##` gives `foo`, `### ###` gives the empty text and
\* `### foo ### b` gives `foo ### b`.
C25_ClosingHashes ==
    /\ (Stepped /\ heading_parse(trim(line), calculate_indent(line)).some) =>
          /\ heading_parse(trim(line), calculate_indent(line)).v.children
                = <<Text(HeadingContent(line))>>
          /\ IdleHeading(line, LeadingHashes(line), HeadingContent(line))
    /\ IdleHeading(<<"#", " ", "f", "o", "o", "#">>, 1, <<"f", "o", "o", "#">>)
    /\ IdleHeading(<<"#", "#", " ", "f", "o", "o", " ", "#", "#">>, 2, <<"f", "o", "o">>)
    /\ IdleHeading(<<"#", "#", "#", " ", "#", "#", "#">>, 3, <<>>)
    /\ IdleHeading(<<"#", "#", "#", " ", "f", "o", "o", " ", "#", "#", "#", " ", "b">>, 3,
                   <<"f", "o", "o", " ", "#", "#", "#", " ", "b">>)

\* `# foo#` read in Idle: a Heading of level 1 that keeps the `#`
C25_Witness ==
    /\ pc = "done"
    /\ input = << <<"#", " ", "f", "o", "o", "#">> >>
    /\ children = <<Heading(1, <<Text(<<"f", "o", "o", "#">>)>>)>>

\* ------------------------------------------------------------------------
\* C26
\* ------------------------------------------------------------------------

\* 1 for each space and 4 for each tab of the leading run of spaces and tabs
RECURSIVE LeadingColumns(_)
LeadingColumns(l) ==
    IF l = <<>> THEN 0
    ELSE IF l[1] = " " THEN 1 + LeadingColumns(Tail(l))
    ELSE IF l[1] = "\t" THEN 4 + LeadingColumns(Tail(l))
    ELSE 0

\* C26: the indentation of every line read is the number of spaces plus 4
\* times the number of tabs of its leading run of spaces and tabs, without
\* rounding to tab stops: two spaces and a tab give 6, not 4, and a line
\* that starts with another character gives 0.
C26_CalculateIndent ==
    Stepped =>
        /\ calculate_indent(line) = LeadingColumns(line)
        /\ (Len(line) >= 3 /\ SubSeq(line, 1, 3) = <<" ", " ", "\t">>
               /\ (Len(line) = 3 \/ line[4] \notin {" ", "\t"})) =>
              calculate_indent(line) = 6
        /\ (line # <<>> /\ line[1] \notin {" ", "\t"}) => calculate_indent(line) = 0

\* two spaces, a tab and `# h`: 6 columns, so no heading but a Paragraph
C26_Witness ==
    /\ pc = "done"
    /\ input = << <<" ", " ", "\t", "#", " ", "h">> >>
    /\ calculate_indent(input[1]) = 6
    /\ children = <<Paragraph(<<Text(<<"#", " ", "h">>)>>)>>

\* ------------------------------------------------------------------------
\* C27
\* ------------------------------------------------------------------------

\* the line ends the open List
EndsList ==
    /\ StepFrom("List")
    /\ list_item_try_end(line, prev.context.first_item_start.marker,
                         prev.context.first_item_start.content_indent,
                         prev.context.current_content_indent).kind = "Reprocess"

\* the line ends the open indented CodeBlock
EndsIndentedCode ==
    /\ StepFrom("CodeBlockIndented")
    /\ ~try_start_code_block_indented(line).ok
    /\ try_start_code_block_indented(line).reason = "InsufficientIndent"

\* the List node of the open List
FinishedList ==
    finalize_list(prev.context.first_item_start, prev.context.items,
                  prev.context.current_item_lines, prev.context.tight, <<>>)[1]

\* the step appended the container and then what the Idle transition alone
\* makes of the line, which is at most one node and never a container
ReplayedOnce(container) ==
    \A idle \in {process_line_in_none(line, <<>>)} :
        /\ SubSeq(children, 1, Len(prev.children)) = prev.children
        /\ Emitted = <<container>> \o idle[1]
        /\ context = idle[2]
        /\ Len(idle[1]) <= 1
        /\ \A i \in 1..Len(idle[1]) : idle[1][i].type \in {"ThematicBreak", "Heading"}

\* C27: when a line ends a List or an indented CodeBlock, the finished
\* List or CodeBlock node is appended first, then the nodes of the Idle
\* transition on that line, and the new state is the Idle transition's:
\* the line is neither dropped nor read again.  The Idle transition emits
\* at most one node, a ThematicBreak or a Heading, so it never replays.
C27_ReplayOrdering ==
    /\ EndsList => ReplayedOnce(FinishedList)
    /\ EndsIndentedCode =>
          ReplayedOnce(CodeBlock(None, trim_blank_lines(prev.context.lines)))

\* `- a` then `* * *`: the List is appended, then the ThematicBreak
C27_Witness ==
    /\ EndsList
    /\ input = << <<"-", " ", "a">>, <<"*", " ", "*", " ", "*">> >>
    /\ Len(children) = 2
    /\ children[1].type = "List" /\ children[2] = ThematicBreak
    /\ context = CtxNone

\* ------------------------------------------------------------------------
\* C28
\* ------------------------------------------------------------------------

\* the leading spaces of the line read
LineSpaces == count_leading_char(line, " ")

\* a non-blank line read in List state
ListLine == StepFrom("List") /\ ~IsBlankLine(line)

\* the line is taken as an item start: it is one, below the current
\* content indent
TakenAsItemStart ==
    LineSpaces < prev.context.current_content_indent /\ list_item_try_start(line).ok

\* the step appended the line to the current item, after the pending blank
\* lines, without min(leading spaces, current content indent) spaces
ContinuesItem ==
    /\ children = prev.children
    /\ context.tag = "List"
    /\ context.first_item_start = prev.context.first_item_start
    /\ context.items = prev.context.items
    /\ context.current_content_indent = prev.context.current_content_indent
    /\ Len(context.current_item_lines)
          = Len(prev.context.current_item_lines) + prev.context.pending_blank_count + 1
    /\ SubSeq(context.current_item_lines, 1, Len(prev.context.current_item_lines))
          = prev.context.current_item_lines
    /\ \A i \in (Len(prev.context.current_item_lines) + 1)
                    ..(Len(context.current_item_lines) - 1) :
          context.current_item_lines[i] = ItemLine_blank
    /\ context.current_item_lines[Len(context.current_item_lines)].content
          = SubSeq(line, min(LineSpaces, prev.context.current_content_indent) + 1,
                   Len(line))

\* C28: in List state a non-blank line that is no list-item start and has
\* fewer leading spaces than the first item's content indent ends the list:
\* one List node is emitted and the line is replayed against Idle, also
\* when the current item ends in paragraph text.  A non-blank line with at
\* least that many leading spaces, and not taken as an item start, is
\* appended to the current item without min(leading spaces, current
\* content indent) leading spaces.
C28_NoLazyContinuation ==
    ListLine =>
        /\ (~list_item_try_start(line).ok
               /\ LineSpaces < prev.context.first_item_start.content_indent) =>
              (EndsList /\ ReplayedOnce(FinishedList))
        /\ (LineSpaces >= prev.context.first_item_start.content_indent
               /\ ~TakenAsItemStart) => ContinuesItem

\* `- a` then `b`: the List is closed and `b` starts a Paragraph
C28_Witness ==
    /\ ListLine
    /\ input = << <<"-", " ", "a">>, <<"b">> >>
    /\ children = <<List([kind |-> "Bullet"], 1, TRUE,
                          <<ListItem(<<Paragraph(<<Text(<<"a">>)>>)>>)>>)>>
    /\ context = CtxParagraph(<<<<"b">>>>)

\* ------------------------------------------------------------------------
\* C29
\* ------------------------------------------------------------------------

\* the non-blank line read in List state left the list open
StaysInList == ListLine /\ children = prev.children

\* the step closed the current item and opened another
OpensItem == StaysInList /\ Len(context.items) = Len(prev.context.items) + 1

\* C29: in List state a blank line adds one to the pending-blank counter
\* and changes nothing else: the completed items, the current item's lines,
\* both content indents, the first item's start, the tight flag and the
\* emitted nodes stay.  The next line that stays in the list resets the
\* counter to 0: a continuation line is put into the current item after
\* exactly that many empty lines, a new item takes none of them, neither
\* into the item it closes nor into the one it opens.
C29_BlankLineFrame ==
    /\ (StepFrom("List") /\ IsBlankLine(line)) =>
          /\ children = prev.children
          /\ context.tag = "List"
          /\ context.pending_blank_count = prev.context.pending_blank_count + 1
          /\ context.items = prev.context.items
          /\ context.current_item_lines = prev.context.current_item_lines
          /\ context.current_content_indent = prev.context.current_content_indent
          /\ context.first_item_start = prev.context.first_item_start
          /\ context.tight = prev.context.tight
    /\ StaysInList =>
          /\ context.tag = "List"
          /\ context.pending_blank_count = 0
          /\ IF OpensItem
             THEN /\ context.items
                       = Append(prev.context.items, prev.context.current_item_lines)
                  /\ Len(context.current_item_lines) = 1
             ELSE /\ context.items = prev.context.items
                  /\ Len(context.current_item_lines)
                       = Len(prev.context.current_item_lines)
                           + prev.context.pending_blank_count + 1
                  /\ SubSeq(context.current_item_lines, 1,
                            Len(context.current_item_lines) - 1)
                       = prev.context.current_item_lines
                           \o [i \in 1..prev.context.pending_blank_count
                                  |-> ItemLine_blank]

\* `- a`, a blank line, then `  b`: the item holds a, an empty line, b
C29_Witness ==
    /\ StaysInList
    /\ ~OpensItem
    /\ prev.context.pending_blank_count = 1
    /\ context.current_item_lines
          = <<ItemLine_text(<<"a">>), ItemLine_blank, ItemLine_text(<<"b">>)>>

\* ------------------------------------------------------------------------
\* C30
\* ------------------------------------------------------------------------

\* the Paragraph of the lines read since the paragraph was opened, each
\* trimmed, joined by newlines
AccumulatedParagraph ==
    Paragraph(<<Text(join([i \in 1..(Len(input) - prev.opened)
                              |-> trim(input[prev.opened + i - 1])], NL))>>)

\* the line read is a setext underline: the paragraph is promoted to a
\* Heading, not interrupted
PromotesParagraph ==
    try_start_heading_setext(trim(line), calculate_indent(line)).ok

\* the step emitted the nodes after the earlier ones and left the context
InterruptedWith(nodes, ctx) ==
    /\ SubSeq(children, 1, Len(prev.children)) = prev.children
    /\ Emitted = nodes
    /\ context = ctx

\* C30: a line that interrupts an open paragraph emits the Paragraph of all
\* accumulated lines (each trimmed, joined by newlines) ahead of the block
\* it starts.  A thematic break or ATX heading line emits the Paragraph,
\* then the ThematicBreak or Heading, and returns to Idle; a fence start, a
\* blockquote marker or a non-empty list item emits the Paragraph and opens
\* a CodeBlockFenced, Blockquote or List begun by that line; a blank line
\* emits the Paragraph alone and returns to Idle.
C30_ParagraphInterrupted ==
    StepFrom("Paragraph") =>
        \A trimmed \in {trim(line)} : \A indent \in {calculate_indent(line)} :
        \A break \in {thematic_break_parse(trimmed, indent)} :
        \A heading \in {heading_parse(trimmed, indent)} :
        \A fence \in {try_start_code_block_fenced(line)} :
        \A item \in {list_item_try_start(line)} :
            /\ trimmed = <<>> => InterruptedWith(<<AccumulatedParagraph>>, CtxNone)
            /\ (break.some /\ ~PromotesParagraph) =>
                  InterruptedWith(<<AccumulatedParagraph, break.v>>, CtxNone)
            /\ heading.some =>
                  InterruptedWith(<<AccumulatedParagraph, heading.v>>, CtxNone)
            /\ fence.ok =>
                  /\ InterruptedWith(<<AccumulatedParagraph>>,
                                     CtxCodeBlockFenced(fence.start, <<>>))
                  /\ context = process_line_in_none(line, <<>>)[2]
            /\ (trimmed # <<>> /\ Head(trimmed) = ">" /\ indent <= 3) =>
                  /\ InterruptedWith(<<AccumulatedParagraph>>,
                                     CtxBlockquote(<<trimmed>>))
                  /\ context = process_line_in_none(line, <<>>)[2]
            /\ (item.ok /\ item.start.content # <<>> /\ ~break.some) =>
                  /\ InterruptedWith(<<AccumulatedParagraph>>,
                                     ListStartContext(item.start))
                  /\ context = process_line_in_none(line, <<>>)[2]

\* `a`, `a`, `# h`: the Paragraph of both lines, then the Heading
C30_Witness ==
    /\ StepFrom("Paragraph")
    /\ children = <<Paragraph(<<Text(<<"a">> \o NL \o <<"a">>)>>),
                    Heading(1, <<Text(<<"h">>)>>)>>
    /\ context = CtxNone

\* ------------------------------------------------------------------------
\* C31
\* ------------------------------------------------------------------------

\* a line read in CodeBlockFenced state that does not close the fence
InsideFence ==
    /\ StepFrom("CodeBlockFenced")
    /\ ~ClosesFence(line, prev.context.start.fence_char, prev.context.start.fence_len)

\* the line would start or end a block in Idle or Paragraph state: a blank
\* line, a heading, a thematic break, a blockquote or list marker, a fence
LooksLikeBlock ==
    \/ IsBlankLine(line)
    \/ heading_parse(trim(line), calculate_indent(line)).some
    \/ thematic_break_parse(trim(line), calculate_indent(line)).some
    \/ (trim(line) # <<>> /\ Head(trim(line)) = ">")
    \/ list_item_try_start(line).ok
    \/ try_start_code_block_fenced(line).ok

\* C31: in CodeBlockFenced state every line that is no closing fence,
\* whatever block it would start elsewhere, is appended as content without
\* min(its leading spaces, the opening fence's indentation) leading
\* spaces; no node is emitted and the fence's character, length, info and
\* indent stay as they are.
C31_FencedContentOnly ==
    InsideFence =>
        /\ children = prev.children
        /\ context.tag = "CodeBlockFenced"
        /\ context.start = prev.context.start
        /\ context.content
              = Append(prev.context.content,
                       SubSeq(line,
                              min(count_leading_char(line, " "),
                                  prev.context.start.indent) + 1,
                              Len(line)))

\* a fence, then a heading line and a list item line as its content
C31_Witness ==
    /\ InsideFence /\ LooksLikeBlock
    /\ input = <<<<BT, BT, BT>>, <<"#", " ", "h">>, <<"-", " ", "a">>>>
    /\ children = <<>>
    /\ context.content = <<<<"#", " ", "h">>, <<"-", " ", "a">>>>

\* ------------------------------------------------------------------------
\* C32
\* ------------------------------------------------------------------------

\* the finished nodes before the last step are the first of those after it
KeepsFinished == SubSeq(children, 1, Len(prev.children)) = prev.children

\* C32: the finished top-level nodes are append-only.  After every line,
\* and after the end of input, the nodes finished before are a prefix of
\* those finished now, unchanged and in the same order; a line adds at most
\* two nodes, and when it adds two the first is the block that was open and
\* the second the one the line itself makes, so the children of the
\* Document are in the order their blocks closed.
C32_AppendOnly ==
    /\ Len(children) >= Len(prev.children)
    /\ KeepsFinished
    /\ Stepped =>
          /\ Len(Emitted) <= 2
          /\ Len(Emitted) = 2 =>
                /\ Emitted[1].type = TrailingType(prev.context.tag)
                /\ <<Emitted[2]>> = process_line_in_none(line, <<>>)[1]
    /\ (pc = "done" /\ input # <<>>) =>
          /\ Len(Emitted) <= 1
          /\ result = Some(Document(children))

\* `# h`, `a`, `* * *`: the Heading stays first, Paragraph and ThematicBreak
\* follow it
C32_Witness ==
    /\ Stepped
    /\ prev.children = <<Heading(1, <<Text(<<"h">>)>>)>>
    /\ Len(Emitted) = 2
    /\ Emitted[1] = Paragraph(<<Text(<<"a">>)>>)
    /\ Emitted[2].type = "ThematicBreak"

\* ------------------------------------------------------------------------
\* C33
\* ------------------------------------------------------------------------

\* the last line opened the List state
ListOpened == pc = "scan" /\ context.tag = "List" /\ opened = Len(input)

\* the last line was read in List state and left that list open
ListKept == StepFrom("List") /\ context.tag = "List" /\ children = prev.children

\* C33: within one List state the tight flag only falls.  It is true when
\* the list opens; a line that leaves the list open never turns it from
\* false to true; the List node emitted when the list closes, by a line or
\* by the end of input, carries the value the flag had then.
C33_TightMonotone ==
    /\ ListOpened => context.tight
    /\ ListKept => (context.tight => prev.context.tight)
    /\ (ClosedByLine("List") \/ ClosedAtEnd("List")) =>
          /\ Emitted # <<>>
          /\ Emitted[1].type = "List"
          /\ Emitted[1].tight = prev.context.tight

\* `- a`, a blank line, `  b`, `  b`: loose after the third line, and
\* still loose after the fourth, which follows no blank line
C33_Witness ==
    /\ ListKept
    /\ input = <<<<"-", " ", "a">>, <<>>, <<" ", " ", "b">>, <<" ", " ", "b">>>>
    /\ ~prev.context.tight
    /\ prev.context.pending_blank_count = 0
    /\ ~context.tight

\* ------------------------------------------------------------------------
\* C34
\* ------------------------------------------------------------------------

\* the start read from the line that opened the list open before the last
\* step
OpeningStart == list_item_try_start(input[prev.opened]).start

\* C34: while a List state is open its first item's start (marker, indent,
\* content indent, content) is the one read from the line that opened the
\* list, and no line changes it.  The type and the start number of the
\* List emitted are those of that first marker.  The current content
\* indent is that of the last item opened and changes with no other line.
C34_FirstItemStartFixed ==
    /\ (pc = "scan" /\ context.tag = "List") =>
          context.first_item_start = list_item_try_start(input[opened]).start
    /\ ListOpened =>
          context.current_content_indent = context.first_item_start.content_indent
    /\ ListKept =>
          /\ context.first_item_start = prev.context.first_item_start
          /\ context.current_content_indent
                = IF OpensItem THEN list_item_try_start(line).start.content_indent
                  ELSE prev.context.current_content_indent
    /\ (ClosedByLine("List") \/ ClosedAtEnd("List")) =>
          /\ Emitted # <<>>
          /\ Emitted[1].type = "List"
          /\ <<Emitted[1].list_type, Emitted[1].start>>
                = to_list_type(OpeningStart.marker)

\* `2. b`, `7.`, then the end of input: an ordered list of two items that
\* starts at 2, the second item's content indent being another
C34_Witness ==
    /\ ClosedAtEnd("List")
    /\ OpeningStart.marker.kind = "Ordered"
    /\ Emitted[1].start = 2
    /\ Len(Emitted[1].children) = 2
    /\ prev.context.current_content_indent
          # prev.context.first_item_start.content_indent

\* ------------------------------------------------------------------------
\* C35
\* ------------------------------------------------------------------------

\* the numbers of children of the List nodes in and under the node
RECURSIVE ItemCounts(_)
ItemCounts(node) ==
    CASE node.type \in {"Document", "Blockquote", "List", "ListItem"} ->
            (IF node.type = "List" THEN {Len(node.children)} ELSE {})
                \cup UNION {ItemCounts(node.children[i]) : i \in 1..Len(node.children)}
      [] OTHER -> {}

\* the line read in List state is taken as a new item of the list
NewItemTransition ==
    /\ StepFrom("List")
    /\ list_item_try_end(line, prev.context.first_item_start.marker,
                         prev.context.first_item_start.content_indent,
                         prev.context.current_content_indent).kind = "NewItem"

\* the items of the list open before the last step, the open one last
AllItems == Append(prev.context.items, prev.context.current_item_lines)

\* C35: every List node, at any depth, has at least one ListItem.  A List
\* state opens with no completed item and a current item of one line, the
\* marker line's content; each new-item transition, and no other line,
\* completes the current item behind the earlier ones and opens one of one
\* line; the current item is never without a line.  The List emitted has
\* the completed items and then the current one as its ListItems, in that
\* order: 1 plus the number of new-item transitions.
C35_ItemCount ==
    /\ \A i \in 1..Len(children) : 0 \notin ItemCounts(children[i])
    /\ result.some => 0 \notin ItemCounts(result.v)
    /\ (pc = "scan" /\ context.tag = "List") => Len(context.current_item_lines) >= 1
    /\ ListOpened =>
          /\ context.items = <<>>
          /\ context.current_item_lines
                = <<ItemLine_text(list_item_try_start(line).start.content)>>
    /\ ListKept =>
          IF NewItemTransition
          THEN /\ context.items = AllItems
               /\ context.current_item_lines
                     = <<ItemLine_text(list_item_try_start(line).start.content)>>
          ELSE /\ context.items = prev.context.items
               /\ Len(context.current_item_lines)
                     >= Len(prev.context.current_item_lines)
    /\ (ClosedByLine("List") \/ ClosedAtEnd("List")) =>
          /\ Emitted # <<>>
          /\ Emitted[1].type = "List"
          /\ Emitted[1].children
                = [k \in 1..Len(AllItems) |-> ListItem(parse_item_lines(AllItems[k]))]

\* `- a`, ` - b`, `  - c` and the end of input: two new-item transitions,
\* three ListItems in the order of the lines
C35_Witness ==
    /\ ClosedAtEnd("List")
    /\ Len(prev.context.items) = 2
    /\ Emitted[1].children
          = <<ListItem(<<Paragraph(<<Text(<<"a">>)>>)>>),
              ListItem(<<Paragraph(<<Text(<<"b">>)>>)>>),
              ListItem(<<Paragraph(<<Text(<<"c">>)>>)>>)>>

\* ------------------------------------------------------------------------
\* C36
\* ------------------------------------------------------------------------

\* the Blockquote nodes among the nodes the last step emitted
EmittedQuotes == {i \in 1..Len(Emitted) : Emitted[i].type = "Blockquote"}

\* C36: in every Blockquote state the buffer has a first line and that line
\* begins with `>`, so the buffered text always parses to a Blockquote.
\* Closing the state, by a line or by the end of input, emits exactly one
\* Blockquote node, ahead of anything else the closing line emits; the
\* buffer is never dropped without a node.
C36_QuoteBufferNonEmpty ==
    /\ (pc = "scan" /\ context.tag = "Blockquote") =>
          /\ context.lines # <<>>
          /\ context.lines[1] # <<>>
          /\ context.lines[1][1] = ">"
          /\ context.lines[1] = trim(input[opened])
          /\ blockquote_parse_text(join(context.lines, NL)).some
    /\ Closed("Blockquote") =>
          /\ EmittedQuotes = {1}
          /\ Len(children) > Len(prev.children)

\* `> a`, `b`, then a blank line: one Blockquote of the lazy paragraph
C36_Witness ==
    /\ ClosedByLine("Blockquote")
    /\ prev.context.lines = <<<<">", " ", "a">>, <<"b">>>>
    /\ IsBlankLine(line)
    /\ Len(Emitted) = 1
    /\ Emitted[1].type = "Blockquote"

\* ------------------------------------------------------------------------
\* C37
\* ------------------------------------------------------------------------

\* the text up to its first newline, and the text after its last one
FirstLineOf(s) ==
    IF \E i \in 1..Len(s) : s[i] = "\n"
    THEN SubSeq(s, 1, Min({i \in 1..Len(s) : s[i] = "\n"}) - 1)
    ELSE s

LastLineOf(s) ==
    IF \E i \in 1..Len(s) : s[i] = "\n"
    THEN SubSeq(s, Max({i \in 1..Len(s) : s[i] = "\n"}) + 1, Len(s))
    ELSE s

\* C37: in every CodeBlockIndented state there is a first accumulated line
\* and it is not blank: it is what follows the four spaces of the non-blank
\* line that opened the state from Idle.  The CodeBlock emitted when the
\* state closes, by a line or by the end of input, has no info and a
\* content that is not empty and whose first and last lines are not blank.
C37_IndentedCodeNonEmpty ==
    /\ (pc = "scan" /\ context.tag = "CodeBlockIndented") =>
          /\ context.lines # <<>>
          /\ ~IsBlankLine(context.lines[1])
          /\ ~IsBlankLine(input[opened])
          /\ context.lines[1] = SubSeq(input[opened], 5, Len(input[opened]))
          /\ (opened = Len(input)) => prev.context.tag # "Paragraph"
    /\ Closed("CodeBlockIndented") =>
          /\ Emitted # <<>>
          /\ Emitted[1].type = "CodeBlock"
          /\ Emitted[1].info = None
          /\ Emitted[1].content # <<>>
          /\ ~IsBlankLine(FirstLineOf(Emitted[1].content))
          /\ ~IsBlankLine(LastLineOf(Emitted[1].content))

\* `    a`, a line of five spaces, then the end of input: the line of one
\* space accumulated last is not in the content
C37_Witness ==
    /\ ClosedAtEnd("CodeBlockIndented")
    /\ prev.context.lines = <<<<"a">>, <<" ">>>>
    /\ Emitted = <<CodeBlock(None, <<"a">>)>>

\* ------------------------------------------------------------------------
\* C38
\* ------------------------------------------------------------------------

\* the source text of the block the last step closed
ClosedSource == join(QuoteInputLines, NL)

\* the texts of an item that are handed to parse: the whole content when no
\* line is flagged, else the content of each chunk without a flagged line
ItemParseTexts(item) ==
    IF \E i \in 1..Len(item) : item[i].text_only
    THEN Let(item_chunks(item, <<>>, FALSE), LAMBDA chunks :
             {join(item_contents(chunks[i][1]), NL) :
                 i \in {j \in 1..Len(chunks) : ~chunks[j][2]}})
    ELSE {ItemText(item)}

\* the text is longer than the inner text a blockquote parse of it hands
\* on, and so is every chunk of that inner text, at every level
RECURSIVE QuoteShrinks(_)
QuoteShrinks(block) ==
    Let(blockquote_contents(lines(trim(block)), <<>>), LAMBDA contents :
        (contents.some /\ contents.v # <<>>) =>
            Let(join(contents.v, NL), LAMBDA inner :
                /\ Len(inner) < Len(block)
                /\ Let(filter_nonempty(split_blank(inner)), LAMBDA chunks :
                       \A i \in 1..Len(chunks) : QuoteShrinks(chunks[i]))))

\* the number of Blockquote and ListItem nodes around the innermost node
RECURSIVE ContainerDepth(_)
ContainerDepth(node) ==
    CASE node.type \in {"Document", "Blockquote", "List", "ListItem"} ->
            (IF node.type \in {"Blockquote", "ListItem"} THEN 1 ELSE 0)
                + (IF node.children = <<>> THEN 0
                   ELSE Max({ContainerDepth(node.children[i]) :
                                i \in 1..Len(node.children)}))
      [] OTHER -> 0

\* C38: recursive parsing ends.  Every text handed to a recursive parse is
\* shorter than the source text of the container it is taken from: each
\* text of a closed list's items, which together with one character per
\* item and the newlines between items do not exceed the list's source,
\* and the inner text of a closed blockquote, at every level of nesting.
\* So no node lies under more containers than the input has characters.
C38_RecursionShrinks ==
    /\ Closed("List") =>
          /\ \A k \in 1..Len(ClosedItems) : \A text \in ItemParseTexts(ClosedItems[k]) :
                Len(text) < Len(ClosedSource)
          /\ Len(join([k \in 1..Len(ClosedItems) |-> ItemText(ClosedItems[k])], NL))
                + Len(ClosedItems) <= Len(ClosedSource)
    /\ Closed("Blockquote") =>
          /\ Len(QuoteInner) < Len(ClosedSource)
          /\ QuoteShrinks(join(prev.context.lines, NL))
    /\ (Closed("List") \/ Closed("Blockquote")) =>
          /\ Emitted # <<>>
          /\ ContainerDepth(Emitted[1]) <= Len(ClosedSource)
    /\ result.some => ContainerDepth(result.v) <= Len(join(input, NL))

\* `> >> d` and the end of input: three Blockquotes, each inner text
\* shorter than the text around it
C38_Witness ==
    /\ ClosedAtEnd("Blockquote")
    /\ ClosedSource = <<">", " ", ">", ">", " ", "d">>
    /\ QuoteInner = <<">", ">", " ", "d">>
    /\ ContainerDepth(Emitted[1]) = 3

=============================================================================
